---- MODULE Spec2Model ----
(***************************************************************************)
(* A model of mcphub: the registry upsert of s3_handler.py, the report     *)
(* aggregation of cli.py, the pagination loops and the analysis poller of  *)
(* sonarqube.py, the workflows (push, scan_mcp, main), the lookups of a    *)
(* server by name, the parsing of the static scanner's report, the secret  *)
(* scanner's adapter run_ggshield_scan, the existence check and prompts of *)
(* push, and create_sonarcloud_project.                                    *)
(***************************************************************************)
EXTENDS Integers, Sequences, FiniteSets, TLC

(***************************************************************************)
(* Bounds of the model.                                                    *)
(***************************************************************************)
\* add_server_to_mcp calls started in one behaviour (each takes one clock tick)
MaxCalls == 2
\* length of the registry document found in the bucket at the start
MaxInitLen == 2

\* largest issue count each scanner reports
MaxSonarIssues == 6
MaxSecrets == 2
MaxBanditIssues == 1
MaxHighSeverity == 1
\* longest coverage string of the metrics
MaxCovLen == 2

\* the totals a server reports reach MaxTotalPages pages of 500 rows (and one row more)
MaxTotalPages == 3

\* the longest max_wait given to the poller, in seconds
MaxWait == 7
\* the most issues, secrets and static issues a repository of the workflows holds
MaxFound == 1
\* length of the servers list a lookup by name searches
MaxServers == 2
\* issues in the report of the static scanner
MaxResults == 2
\* run_analysis calls made for one project key in one behaviour
MaxRuns == 2

Procs == {1, 2}
Names == {"a", "b"}

(***************************************************************************)
(* Registry documents.  A record keeps its name and its meta block; a      *)
(* record written by hand may have no meta block (has = FALSE).  The       *)
(* bucket object mcp.json is either absent or holds the servers list.      *)
(***************************************************************************)
NoMeta == [has |-> FALSE, created_at |-> 0, updated_at |-> 0]
MetaAt(c, u) == [has |-> TRUE, created_at |-> c, updated_at |-> u]
ServerEntry(n, t) == [name |-> n, meta |-> MetaAt(t, t)]

InitRecords == {[name |-> n, meta |-> m] : n \in Names, m \in {NoMeta, MetaAt(0, 0)}}
SeqsUpTo(S, k) == UNION {[1..i -> S] : i \in 0..k}
NoObject == [exists |-> FALSE, servers |-> <<>>]
Object(servers) == [exists |-> TRUE, servers |-> servers]
InitDocs == {NoObject} \cup {Object(s) : s \in SeqsUpTo(InitRecords, MaxInitLen)}

VARIABLES
  store,        \* the object mcp.json of the bucket
  doc0,         \* the object as it was at the start
  version,      \* number of put_object calls that succeeded
  clock,        \* datetime.now() of push, one tick per call
  pc,           \* per caller: "idle", "get" (before get_object), "put" (before put_object)
  server_data,  \* per caller: the record passed to add_server_to_mcp
  mcp_data,     \* per caller: the servers list obtained by the read
  outcome,      \* per caller: how get_object ended
  readVersion,  \* per caller: version of the object when it was read
  ret,          \* per caller: result of the last call
  hist          \* the calls that wrote and returned True, in write order

regVars == <<store, doc0, version, clock, pc, server_data, mcp_data, outcome,
             readVersion, ret, hist>>

VARIABLES
  aggPc,           \* "input" before create_security_report, "done" after
  sonarqube_data,  \* its argument: issue_counts.total and metrics.coverage
  ggshield_result, \* its argument: total_secrets
  bandit_result,   \* its argument: total_issues and severity_counts.high
  unified_report   \* the report it returns

aggVars == <<aggPc, sonarqube_data, ggshield_result, bandit_result, unified_report>>

VARIABLES
  kind,       \* "issues" (fetch_issues) or "hotspots" (fetch_hotspots)
  server,     \* the service: faithful with T rows, or answering anything
  pagePc,     \* "idle", "request" (at the top of the loop), "done" (returned)
  page,       \* the page asked for next
  all_rows,   \* all_issues / all_hotspots: one chunk per page received
  requests,   \* requests.get calls made
  resp        \* the last response: how it ended, its rows and the total it reports

pageVars == <<kind, server, pagePc, page, all_rows, requests, resp>>

VARIABLES
  max_wait,   \* the max_wait argument of wait_for_analysis_completion
  elapsed,    \* time.time() - start_time, in seconds
  pollPc,     \* "idle", "loop" (at the while test), "returned"
  ready,      \* the value returned
  sleeps,     \* time.sleep(3) calls made
  polls,      \* requests.get calls made
  seen,       \* the status responses received, in order
  fetched     \* the calls run_analysis made after the poller returned

pollVars == <<max_wait, elapsed, pollPc, ready, sleeps, polls, seen, fetched>>

VARIABLES
  wf,              \* the workflow invoked: "push", "scan_mcp" or "main"
  fpc,             \* the step it is at
  dirs,            \* the scratch directories that exist
  made,            \* the scratch directories the invocation created, in order
  exc,             \* the exception that is propagating, or "none"
  result,          \* "running", then how the invocation ended
  failed,          \* the steps that failed
  found,           \* what the scanners found: issues, secrets, static issues
  report_data,     \* push: result['report_data'] of run_analysis
  tool_info,       \* push: tool_info['tool_count']
  scan_result,     \* push: ggshield_result; scan_mcp: scan_result
  static_result,   \* push: bandit_result; main: scan_results
  security_report, \* push: the unified report, or None
  pushed           \* the records given to add_server_to_mcp

flowVars == <<wf, fpc, dirs, made, exc, result, failed, found, report_data, tool_info,
              scan_result, static_result, security_report, pushed>>

VARIABLES
  lookup,       \* the function that looks a server up by name
  mcp_servers,  \* the servers list it searches
  asked,        \* the name asked for
  lookPc,       \* "idle", "call", "done"
  hit           \* the position of the record it found, 0 when it found none

lookVars == <<lookup, mcp_servers, asked, lookPc, hit>>

VARIABLES
  bandit_results, \* result["results"]: the issues of the tool's JSON report
  parsePc,        \* "idle", "call", "done"
  parsed          \* what _parse_bandit_results returns

parseVars == <<bandit_results, parsePc, parsed>>

VARIABLES
  api_key,     \* GITGUARDIAN_API_KEY is set
  in_path,     \* the secrets the scanned path holds
  ran,         \* how subprocess.run ends: what it raises, or the exit code and stdout
  ggPc,        \* "idle", "call", "run", "parse", "done"
  spawned,     \* ggshield processes started
  gg_return,   \* the dict run_ggshield_scan returned, with the keys it holds
  gg_raised    \* an exception left run_ggshield_scan

ggVars == <<api_key, in_path, ran, ggPc, spawned, gg_return, gg_raised>>

VARIABLES
  bucket,       \* the object mcp.json of the bucket the pushes share
  bucket0,      \* the object as it was before the pushes
  pushPc,       \* per push: "idle", "check", "confirm", "continue", "analysis",
                \* "get", "put", "done", "exited"
  force,        \* per push: --force
  checked,      \* per push: "no", or how check_server_exists ended:
                \* "found", "absent", "raised"
  answer,       \* per push: "unasked", or what the user answered: "yes", "no"
  analysed,     \* per push: run_analysis, the clone and the scans were started
  read_servers, \* per push: the servers list add_server_to_mcp read
  puts,         \* per push: put_object calls that succeeded
  replaced      \* per push: its put_object replaced a record of its name

pushVars == <<bucket, bucket0, pushPc, force, checked, answer, analysed, read_servers,
              puts, replaced>>

VARIABLES
  project_exists, \* the service holds a project of the project key
  crPc,           \* "idle", "start", "create", "clone", "scanner", "end"
  runs,           \* run_analysis calls started
  creations,      \* the create_sonarcloud_project calls: whether the project
                  \* existed, the response, the value returned
  warned,         \* run_analysis printed its warning in this run
  raised_at       \* the step of this run that raised, "none" when none did

crVars == <<project_exists, crPc, runs, creations, warned, raised_at>>

vars == <<regVars, aggVars, pageVars, pollVars, flowVars, lookVars, parseVars, ggVars,
          pushVars, crVars>>

(***************************************************************************)
(* add_server_to_mcp, lines 39-52: find the first record of that name,     *)
(* carry its created_at, drop every record of that name, append.           *)
(***************************************************************************)
Matches(servers, name) == {i \in 1..Len(servers) : servers[i].name = name}
Min(S) == CHOOSE x \in S : \A y \in S : x <= y
HasExisting(servers, name) == Matches(servers, name) # {}
ExistingServer(servers, name) == servers[Min(Matches(servers, name))]

CarryCreatedAt(servers, data) ==
  IF HasExisting(servers, data.name) /\ ExistingServer(servers, data.name).meta.has
  THEN [data EXCEPT !.meta.created_at = ExistingServer(servers, data.name).meta.created_at]
  ELSE data

\* a variant that forgets to drop the records of that name
RemoveNameKeepsAll(servers, name) == servers

RemoveName(servers, name) == SelectSeq(servers, LAMBDA s : s.name # name)

UpsertServers(servers, data) ==
  Append(RemoveName(servers, data.name), CarryCreatedAt(servers, data))

\* a variant that merges into the object as it is at the write
DocToWriteFresh(p) == UpsertServers(store.servers, server_data[p])

\* the document a caller hands to put_object: computed from what it read
DocToWrite(p) == UpsertServers(mcp_data[p], server_data[p])

(***************************************************************************)
(* create_security_report (cli.py).  A dict entry that may be missing is a *)
(* record [has, val]; d.get(k, default) is Get.                            *)
(***************************************************************************)
Missing == [has |-> FALSE, val |-> 0]
Some(v) == [has |-> TRUE, val |-> v]
Opt(S) == {Missing} \cup {Some(v) : v \in S}
Get(entry, default) == IF entry.has THEN entry.val ELSE default

\* metrics.coverage: missing, None, a number, or the string the service sends
CovChars == {"0", "7", "8", "9", ".", "x"}
CovNumbers == {0, 79, 80, 90}
Coverages ==
  {[kind |-> "missing", num |-> 0, str |-> <<>>], [kind |-> "none", num |-> 0, str |-> <<>>]}
    \cup {[kind |-> "num", num |-> n, str |-> <<>>] : n \in CovNumbers}
    \cup {[kind |-> "str", num |-> 0, str |-> t] : t \in SeqsUpTo(CovChars, MaxCovLen)}

\* float(s) of Python on these strings: digits with at most one point and at
\* least one digit; anything else raises ValueError.  The value is kept exactly,
\* as an integer number of 10^-MaxCovLen units.
IsDigit(c) == c \in {"0", "7", "8", "9"}
DigitValue(c) == CASE c = "0" -> 0 [] c = "7" -> 7 [] c = "8" -> 8 [] c = "9" -> 9
Points(t) == {i \in 1..Len(t) : t[i] = "."}
IsFloatLiteral(t) ==
  /\ \A i \in 1..Len(t) : IsDigit(t[i]) \/ t[i] = "."
  /\ Cardinality(Points(t)) <= 1
  /\ \E i \in 1..Len(t) : IsDigit(t[i])
RECURSIVE Decimal(_)
Decimal(t) == IF t = <<>> THEN 0 ELSE 10 * Decimal(SubSeq(t, 1, Len(t) - 1)) + DigitValue(t[Len(t)])
PointAt(t) == IF Points(t) = {} THEN Len(t) + 1 ELSE Min(Points(t))
Unit == 10 ^ MaxCovLen
FloatOfString(t) ==
  LET whole == SubSeq(t, 1, PointAt(t) - 1)
      frac == SubSeq(t, PointAt(t) + 1, Len(t))
  IN Decimal(whole) * Unit + Decimal(frac) * (10 ^ (MaxCovLen - Len(frac)))

\* truthiness of the coverage value: None, 0 and "" are false
Truthy(cov) ==
  CASE cov.kind = "missing" -> FALSE      \* the default 0
    [] cov.kind = "none" -> FALSE
    [] cov.kind = "num" -> cov.num # 0
    [] cov.kind = "str" -> cov.str # <<>>

\* lines 74-79: coverage = float(coverage) if coverage else 0, 0 on ValueError
CoverageValue(cov) ==
  IF ~Truthy(cov) THEN 0
  ELSE IF cov.kind = "num" THEN cov.num * Unit
  ELSE IF IsFloatLiteral(cov.str) THEN FloatOfString(cov.str)
  ELSE 0

CoverageThreshold == 80
CriticalSonarIssues == 5

\* a variant with the comparison off by one
CoverageAtOrBelowThreshold(cov) == CoverageValue(cov) <= CoverageThreshold * Unit

\* line 89: coverage < 80
CoverageBelowThreshold(cov) == CoverageValue(cov) < CoverageThreshold * Unit

\* a variant with the comparison off by one
IsCriticalFromFive(sonar_issues, secrets, high_severity) ==
  sonar_issues >= CriticalSonarIssues \/ secrets > 0 \/ high_severity > 0

\* a variant in which any quality issue is critical
IsCriticalFromOne(sonar_issues, secrets, high_severity) ==
  sonar_issues > 0 \/ secrets > 0 \/ high_severity > 0

\* line 81
IsCritical(sonar_issues, secrets, high_severity) ==
  sonar_issues > CriticalSonarIssues \/ secrets > 0 \/ high_severity > 0

RecCritical == "Critical security issues found - immediate action required"
RecSecrets == "Secrets detected - rotate credentials immediately"
RecVulnerabilities == "Security vulnerabilities found - review and fix"
RecHighSeverity == "High-severity issues detected - prioritize fixes"
RecCoverage == "Code coverage below 80% - add more tests"
RecAllPassed == "All security scans passed - good job!"

AppendIf(cond, recs, line) == IF cond THEN Append(recs, line) ELSE recs

\* lines 70-92
Recommendations(sq, gg, bd) ==
  LET sonar_issues == Get(sq.issue_total, 0)
      secrets == Get(gg.total_secrets, 0)
      bandit_issues == Get(bd.total_issues, 0)
      high_severity == Get(bd.high, 0)
      r1 == AppendIf(IsCritical(sonar_issues, secrets, high_severity), <<>>, RecCritical)
      r2 == AppendIf(secrets > 0, r1, RecSecrets)
      r3 == AppendIf(bandit_issues > 0, r2, RecVulnerabilities)
      r4 == AppendIf(high_severity > 0, r3, RecHighSeverity)
      r5 == AppendIf(CoverageBelowThreshold(sq.coverage), r4, RecCoverage)
  IN AppendIf(Len(r5) = 0, r5, RecAllPassed)

\* a variant that forgets the static scanner
ScanPassedWithoutBandit(sq, gg, bd) ==
  Get(sq.issue_total, 0) = 0 /\ Get(gg.total_secrets, 0) = 0

\* lines 33-37
ScanPassed(sq, gg, bd) ==
  Get(sq.issue_total, 0) = 0 /\ Get(gg.total_secrets, 0) = 0 /\ Get(bd.total_issues, 0) = 0

\* lines 26-30
TotalIssuesAllScanners(sq, gg, bd) ==
  Get(sq.issue_total, 0) + Get(gg.total_secrets, 0) + Get(bd.total_issues, 0)

create_security_report(sq, gg, bd) ==
  [total_issues_all_scanners |-> TotalIssuesAllScanners(sq, gg, bd),
   scan_passed |-> ScanPassed(sq, gg, bd),
   recommendations |-> Recommendations(sq, gg, bd)]

NoReport == [total_issues_all_scanners |-> 0, scan_passed |-> FALSE, recommendations |-> <<>>]

SonarInputs ==
  {[issue_total |-> t, coverage |-> c] : t \in Opt(0..MaxSonarIssues), c \in Coverages}
GgshieldInputs == {[total_secrets |-> t] : t \in Opt(0..MaxSecrets)}
BanditInputs ==
  {[total_issues |-> t, high |-> h] : t \in Opt(0..MaxBanditIssues), h \in Opt(0..MaxHighSeverity)}

AggIdle ==
  /\ aggPc = "idle"
  /\ sonarqube_data = [issue_total |-> Missing, coverage |-> [kind |-> "missing", num |-> 0, str |-> <<>>]]
  /\ ggshield_result = [total_secrets |-> Missing]
  /\ bandit_result = [total_issues |-> Missing, high |-> Missing]
  /\ unified_report = NoReport

InitAgg ==
  /\ aggPc = "input"
  /\ sonarqube_data \in SonarInputs
  /\ ggshield_result \in GgshieldInputs
  /\ bandit_result \in BanditInputs
  /\ unified_report = NoReport

CreateSecurityReport ==
  /\ aggPc = "input"
  /\ unified_report' = create_security_report(sonarqube_data, ggshield_result, bandit_result)
  /\ aggPc' = "done"
  /\ UNCHANGED <<sonarqube_data, ggshield_result, bandit_result>>

(***************************************************************************)
(* fetch_issues and fetch_hotspots (sonarqube.py): the pagination loops.   *)
(* The rows of one response are kept as a chunk [page, count]: the rows    *)
(* the service sent for that page.  On a faithful service the chunk of     *)
(* page p stands for the rows (p-1)*500+1 .. (p-1)*500+count.              *)
(***************************************************************************)
PageSize == 500

Chunk(p, n) == [page |-> p, count |-> n]
RECURSIVE RowCount(_)
\* len(all_issues)
RowCount(chunks) ==
  IF chunks = <<>> THEN 0
  ELSE RowCount(SubSeq(chunks, 1, Len(chunks) - 1)) + chunks[Len(chunks)].count

\* the totals and page lengths a service may answer with
TotalChoices ==
  {0, 1, 750} \cup {PageSize * k + d : k \in 1..MaxTotalPages, d \in {-1, 0, 1}}
RowChoices == {0, PageSize - 1, PageSize, PageSize + 1}
Servers ==
  {[faithful |-> TRUE, T |-> t] : t \in TotalChoices} \cup {[faithful |-> FALSE, T |-> 0]}

\* a response body: issues carry "total", hotspots carry "paging": {"total"}
NoPaging == [has |-> FALSE, val |-> [total |-> Missing]]
Body(n, total, withPaging) ==
  [status |-> "ok", rows |-> n, total |-> total,
   paging |-> IF withPaging THEN [has |-> TRUE, val |-> [total |-> total]] ELSE NoPaging]
NoData == [status |-> "none", rows |-> 0, total |-> Missing, paging |-> NoPaging]
Failure == [status |-> "failed", rows |-> 0, total |-> Missing, paging |-> NoPaging]

\* the rows a faithful service holding T rows sends for page p
FaithfulRows(T, p) ==
  IF T <= (p - 1) * PageSize THEN 0
  ELSE IF T - (p - 1) * PageSize < PageSize THEN T - (p - 1) * PageSize
  ELSE PageSize

Responses(srv, p) ==
  IF srv.faithful
  THEN {Body(FaithfulRows(srv.T, p), Some(srv.T), TRUE)}
  ELSE {Body(n, t, w) : n \in RowChoices, t \in Opt(TotalChoices), w \in BOOLEAN}

\* line 175: data.get("total", 0)
IssuesTotal(body) == Get(body.total, 0)
\* lines 202-203: data.get("paging", {}).get("total", 0)
HotspotsTotal(body) == Get(Get(body.paging, [total |-> Missing]).total, 0)
TotalOf(k, body) == IF k = "issues" THEN IssuesTotal(body) ELSE HotspotsTotal(body)

\* a variant with the comparison off by one
StopAfterPageStrict(accumulated, rows, total) ==
  accumulated > total \/ rows < PageSize

\* a variant that takes a total of 0 for an unknown total
StopAfterPageKnownTotal(accumulated, rows, total) ==
  (total > 0 /\ accumulated >= total) \/ rows < PageSize

\* lines 176 and 204: the break after a page
StopAfterPage(accumulated, rows, total) ==
  accumulated >= total \/ rows < PageSize

\* one iteration with a 200 response: extend, read the total, break or go on
FetchPage ==
  /\ pagePc = "request"
  /\ \E body \in Responses(server, page) :
       LET rows == Append(all_rows, Chunk(page, body.rows)) IN
       /\ resp' = body
       /\ all_rows' = rows
       /\ IF StopAfterPage(RowCount(rows), body.rows, TotalOf(kind, body))
          THEN pagePc' = "done" /\ page' = page
          ELSE pagePc' = "request" /\ page' = page + 1
  /\ requests' = requests + 1
  /\ UNCHANGED <<kind, server>>

FetchFailsDropsRows ==
  /\ pagePc = "request"
  /\ ~server.faithful
  /\ resp' = Failure
  /\ pagePc' = "done"
  /\ requests' = requests + 1
  /\ all_rows' = <<>>
  /\ UNCHANGED <<kind, server, page>>

\* one iteration whose request fails (status not 200, timeout, bad body): break
FetchFails ==
  /\ pagePc = "request"
  /\ ~server.faithful
  /\ resp' = Failure
  /\ pagePc' = "done"
  /\ requests' = requests + 1
  /\ UNCHANGED <<kind, server, page, all_rows>>

PageIdle ==
  /\ kind = "issues"
  /\ server = [faithful |-> FALSE, T |-> 0]
  /\ pagePc = "idle"
  /\ page = 1
  /\ all_rows = <<>>
  /\ requests = 0
  /\ resp = NoData

InitPage ==
  /\ kind \in {"issues", "hotspots"}
  /\ server \in Servers
  /\ pagePc = "request"
  /\ page = 1
  /\ all_rows = <<>>
  /\ requests = 0
  /\ resp = NoData

(***************************************************************************)
(* wait_for_analysis_completion (sonarqube.py) and the calls run_analysis   *)
(* makes after it.  A status response either raised (timeout, connection    *)
(* error, unparsable body) or has a status code, a queue that is empty or   *)
(* not, and a current task that is absent or has a status.                  *)
(***************************************************************************)
SleepSeconds == 3
RequestTimeout == 10
\* a request answers at once, after a second, or at its timeout
Durations == {0, 1, RequestTimeout}

TaskStatuses == {"SUCCESS", "PENDING", "IN_PROGRESS", "FAILED", "CANCELED"}
Raised == [raised |-> TRUE, status_code |-> 0, queue |-> FALSE, current |-> "absent"]
Answer(code, q, c) == [raised |-> FALSE, status_code |-> code, queue |-> q, current |-> c]
StatusResponses ==
  {Raised, Answer(500, FALSE, "absent")}
    \cup {Answer(200, q, c) : q \in BOOLEAN, c \in TaskStatuses \cup {"absent"}}

\* lines 127-154, one iteration: "sleep" (sleep 3 s and test the loop again),
\* "ready" (return True) or "not_ready" (return False)
StatusStepPendingEnds(r) ==
  IF r.raised THEN "sleep"
  ELSE IF r.status_code # 200 THEN "sleep"
  ELSE IF r.queue THEN "sleep"
  ELSE IF r.current = "absent" THEN "ready"
  ELSE IF r.current = "SUCCESS" THEN "ready"
  ELSE IF r.current = "IN_PROGRESS" THEN "sleep"
  ELSE "not_ready"

StatusStepOtherStatusReady(r) ==
  IF r.raised THEN "sleep"
  ELSE IF r.status_code # 200 THEN "sleep"
  ELSE IF r.queue THEN "sleep"
  ELSE IF r.current = "absent" THEN "ready"
  ELSE IF r.current = "SUCCESS" THEN "ready"
  ELSE IF r.current \in {"PENDING", "IN_PROGRESS"} THEN "sleep"
  ELSE "ready"

\* a variant that looks at the current task before the queue
StatusStepCurrentFirst(r) ==
  IF r.raised THEN "sleep"
  ELSE IF r.status_code # 200 THEN "sleep"
  ELSE IF r.current = "SUCCESS" THEN "ready"
  ELSE IF r.queue THEN "sleep"
  ELSE IF r.current = "absent" THEN "ready"
  ELSE IF r.current \in {"PENDING", "IN_PROGRESS"} THEN "sleep"
  ELSE "not_ready"

StatusStep(r) ==
  IF r.raised THEN "sleep"
  ELSE IF r.status_code # 200 THEN "sleep"
  ELSE IF r.queue THEN "sleep"
  ELSE IF r.current = "absent" THEN "ready"
  ELSE IF r.current = "SUCCESS" THEN "ready"
  ELSE IF r.current \in {"PENDING", "IN_PROGRESS"} THEN "sleep"
  ELSE "not_ready"

\* a variant whose test lets the iteration at max_wait run
TimedOutLate(e, w) == ~(e <= w)

\* line 126: the while test
TimedOut(e, w) == ~(e < w)

\* line 155-156: the value returned when the loop ends by its test
TimeoutResultNotReady == FALSE

TimeoutResult == TRUE

\* run_analysis, lines 396-402: the result of the poller is dropped and the
\* fetches and the report follow
AfterPoll(returned) == <<"fetch_issues", "fetch_hotspots", "fetch_measures", "save_report">>

\* an iteration that sleeps: the request takes d seconds, the sleep 3
PollAgain ==
  /\ pollPc = "loop"
  /\ ~TimedOut(elapsed, max_wait)
  /\ \E r \in StatusResponses, d \in Durations :
       /\ StatusStep(r) = "sleep"
       /\ seen' = Append(seen, r)
       /\ elapsed' = elapsed + d + SleepSeconds
  /\ polls' = polls + 1
  /\ sleeps' = sleeps + 1
  /\ UNCHANGED <<max_wait, pollPc, ready, fetched>>

\* an iteration that returns
PollReturns ==
  /\ pollPc = "loop"
  /\ ~TimedOut(elapsed, max_wait)
  /\ \E r \in StatusResponses, d \in Durations :
       /\ StatusStep(r) # "sleep"
       /\ seen' = Append(seen, r)
       /\ elapsed' = elapsed + d
       /\ ready' = (StatusStep(r) = "ready")
  /\ polls' = polls + 1
  /\ pollPc' = "returned"
  /\ UNCHANGED <<max_wait, sleeps, fetched>>

\* the loop ends by its test
PollTimeout ==
  /\ pollPc = "loop"
  /\ TimedOut(elapsed, max_wait)
  /\ ready' = TimeoutResult
  /\ pollPc' = "returned"
  /\ UNCHANGED <<max_wait, elapsed, sleeps, polls, seen, fetched>>

\* run_analysis goes on with its next call
Proceed ==
  /\ pollPc = "returned"
  /\ Len(fetched) < Len(AfterPoll(ready))
  /\ fetched' = Append(fetched, AfterPoll(ready)[Len(fetched) + 1])
  /\ UNCHANGED <<max_wait, elapsed, pollPc, ready, sleeps, polls, seen>>

PollIdle ==
  /\ max_wait = 0
  /\ elapsed = 0
  /\ pollPc = "idle"
  /\ ready = FALSE
  /\ sleeps = 0
  /\ polls = 0
  /\ seen = <<>>
  /\ fetched = <<>>

InitPoll ==
  /\ max_wait \in -1..MaxWait
  /\ elapsed = 0
  /\ pollPc = "loop"
  /\ ready = FALSE
  /\ sleeps = 0
  /\ polls = 0
  /\ seen = <<>>
  /\ fetched = <<>>

(***************************************************************************)
(* The scanner adapters as the workflows see them.                         *)
(***************************************************************************)
None == [has |-> FALSE, val |-> ""]
NotRun == [ran |-> FALSE]

\* run_ggshield_scan (ggshield.py): the dict it returns.  The keys success and
\* total_secrets are never set.
GgDict(code, err, data) ==
  [ran |-> TRUE, exit_code |-> code, error |-> err, scan_data |-> data,
   success |-> Missing, total_secrets |-> Missing]
GgErrors ==
  {GgDict(500, Some("GITGUARDIAN_API_KEY not configured on server"), Missing),
   GgDict(1, Some("Scanner timeout"), Missing),
   GgDict(127, Some("ggshield command not found. Install with: pip install ggshield"),
          Missing),
   GgDict(1, Some("str(e)"), Missing)}
\* the scan ran over a path holding n secrets: exit code 0 without secrets, 1
\* with; stdout parsed into scan_data, or scan_data None when it does not parse
GgRan(n) ==
  {GgDict(IF n = 0 THEN 0 ELSE 1, None, data) : data \in {Missing, Some(n)}}
run_ggshield_scan(n) == GgErrors \cup GgRan(n)

\* run_bandit_scan: a ScanResult with success, the counts and, after an
\* operational failure, the error text
BanditDict(n, err) ==
  [ran |-> TRUE, success |-> Some(n = 0 /\ ~err.has),
   total_issues |-> IF err.has THEN Missing ELSE Some(n),
   high |-> IF err.has THEN Missing ELSE Some(0), error |-> err]
run_bandit_scan(n) ==
  {BanditDict(n, None), BanditDict(n, Some("Bandit scan timed out (>2 minutes)"))}

\* save_report (sonarqube.py), lines 270-284: the report holds the counts under
\* "summary"; it has no key "issue_counts"
ReportData(n, cov) ==
  [summary |-> [total_issues |-> n], issue_total |-> Missing, coverage |-> cov]
\* fetch_measures: the coverage metric is a string, or missing when the fetch failed
NoCoverage == [kind |-> "missing", num |-> 0, str |-> <<>>]
MeasuredCoverages == {NoCoverage, [kind |-> "str", num |-> 0, str |-> <<"9", "0">>]}
NoReportData == ReportData(0, NoCoverage)

\* create_security_report (cli.py), lines 53-66: the blocks of the two scanners
GitguardianBlockNoError(gg) ==
  [scan_passed |-> Get(gg.success, FALSE), total_secrets |-> Get(gg.total_secrets, 0),
   error |-> None]

GitguardianBlock(gg) ==
  [scan_passed |-> Get(gg.success, FALSE), total_secrets |-> Get(gg.total_secrets, 0),
   error |-> gg.error]

BanditBlock(bd) ==
  [scan_passed |-> Get(bd.success, FALSE), total_issues |-> Get(bd.total_issues, 0),
   error |-> bd.error]

SecurityReport(sq, gg, bd) ==
  [is_none |-> FALSE, summary |-> create_security_report(sq, gg, bd),
   gitguardian |-> GitguardianBlock(gg), bandit |-> BanditBlock(bd)]
NoSecurityReport == [is_none |-> TRUE]

(***************************************************************************)
(* The workflows: push (cli.py) with run_analysis (sonarqube.py) inside,    *)
(* scan_mcp (ggshield.py) and main (snyk_scanner.py).  A step inside a try  *)
(* that raises sets exc and goes to the finally of that try.                *)
(***************************************************************************)
SonarDir == "sonarcloud_auto_"
PushDir == "mcphub_scan_"
GgDir == "mcp_ggshield_scan_"
BanditDir == "bandit_scan_"

Mkdtemp(d) == dirs' = dirs \cup {d} /\ made' = Append(made, d)
RmtreeKeeps(d) == dirs' = dirs

Rmtree(d) == dirs' = dirs \ {d}
\* cleanup (ggshield.py), lines 143-153
Cleanup(d) == Rmtree(d)
Fails(step) == failed' = failed \cup {step}

\* run_analysis, lines 356-372: a missing token, organization or unparsable URL
RunAnalysisConfigError ==
  /\ wf = "push" /\ fpc = "run_analysis"
  /\ exc' = "ValueError" /\ Fails("config")
  /\ fpc' = "except"
  /\ UNCHANGED <<wf, dirs, made, result, found, report_data, tool_info, scan_result,
                 static_result, security_report, pushed>>

\* line 379
RunAnalysisMkdtemp ==
  /\ wf = "push" /\ fpc = "run_analysis"
  /\ Mkdtemp(SonarDir)
  /\ fpc' = "create_project"
  /\ UNCHANGED <<wf, exc, result, failed, found, report_data, tool_info, scan_result,
                 static_result, security_report, pushed>>

\* lines 384-385: a failure is a warning
CreateProject ==
  /\ fpc = "create_project"
  /\ \E ok \in BOOLEAN : IF ok THEN failed' = failed ELSE Fails("create_project")
  /\ fpc' = "clone"
  /\ UNCHANGED <<wf, dirs, made, exc, result, found, report_data, tool_info, scan_result,
                 static_result, security_report, pushed>>

\* lines 388-389
RunAnalysisClone ==
  /\ wf = "push" /\ fpc = "clone"
  /\ \E ok \in BOOLEAN :
       IF ok THEN fpc' = "scanner" /\ exc' = exc /\ failed' = failed
       ELSE fpc' = "run_analysis_finally" /\ exc' = "RuntimeError" /\ Fails("clone")
  /\ UNCHANGED <<wf, dirs, made, result, found, report_data, tool_info, scan_result,
                 static_result, security_report, pushed>>

\* lines 392-393: the scanner returns False, or raises when it is not installed
RunSonarScanner ==
  /\ fpc = "scanner"
  /\ \E ok \in BOOLEAN :
       IF ok THEN fpc' = "wait" /\ exc' = exc /\ failed' = failed
       ELSE fpc' = "run_analysis_finally" /\ exc' = "RuntimeError" /\ Fails("scanner")
  /\ UNCHANGED <<wf, dirs, made, result, found, report_data, tool_info, scan_result,
                 static_result, security_report, pushed>>

\* line 396: the value of wait_for_analysis_completion is dropped
WaitForAnalysis ==
  /\ fpc = "wait"
  /\ \E r \in BOOLEAN : IF r THEN failed' = failed ELSE Fails("poll")
  /\ fpc' = "fetch"
  /\ UNCHANGED <<wf, dirs, made, exc, result, found, report_data, tool_info, scan_result,
                 static_result, security_report, pushed>>

\* lines 397-402: the fetches return what they got (nothing when they fail),
\* save_report counts it; save_report raises when it cannot write its file
FetchAndSaveReport ==
  /\ fpc = "fetch"
  /\ \E n \in 0..MaxFound, cov \in MeasuredCoverages, fetched_all, saved \in BOOLEAN :
       /\ found' = [found EXCEPT !.issues = n]
       /\ IF saved
          THEN /\ report_data' = ReportData(IF fetched_all THEN n ELSE 0, cov)
               /\ exc' = exc
               /\ failed' = IF fetched_all THEN failed ELSE failed \cup {"fetch"}
          ELSE /\ report_data' = report_data
               /\ exc' = "OSError"
               /\ failed' = (IF fetched_all THEN failed ELSE failed \cup {"fetch"})
                              \cup {"save_report"}
  /\ fpc' = "run_analysis_finally"
  /\ UNCHANGED <<wf, dirs, made, result, tool_info, scan_result, static_result,
                 security_report, pushed>>

\* lines 424-428, then push line 372: the exception goes on to push's handler
RunAnalysisFinally ==
  /\ fpc = "run_analysis_finally"
  /\ Rmtree(SonarDir)
  /\ fpc' = IF exc = "none" THEN "push_mkdtemp" ELSE "except"
  /\ UNCHANGED <<wf, made, exc, result, failed, found, report_data, tool_info, scan_result,
                 static_result, security_report, pushed>>

\* push, line 384
PushMkdtemp ==
  /\ fpc = "push_mkdtemp"
  /\ Mkdtemp(PushDir)
  /\ fpc' = "push_clone"
  /\ UNCHANGED <<wf, exc, result, failed, found, report_data, tool_info, scan_result,
                 static_result, security_report, pushed>>

\* lines 387 and 429-432: without its clone push goes on with no tools and no report
PushClone ==
  /\ fpc = "push_clone"
  /\ \E ok \in BOOLEAN :
       IF ok
       THEN /\ fpc' = "discover"
            /\ UNCHANGED <<failed, tool_info, security_report>>
       ELSE /\ fpc' = "push_finally"
            /\ Fails("clone2")
            /\ tool_info' = 0
            /\ security_report' = NoSecurityReport
  /\ UNCHANGED <<wf, dirs, made, exc, result, found, report_data, scan_result, static_result,
                 pushed>>

\* lines 388-394, discover_tools_from_repo: a file that cannot be read is skipped
DiscoverTools ==
  /\ fpc = "discover"
  /\ \E t \in 0..1, readable \in BOOLEAN :
       /\ tool_info' = IF readable THEN t ELSE 0
       /\ IF readable THEN failed' = failed ELSE Fails("discover")
  /\ fpc' = "ggshield"
  /\ UNCHANGED <<wf, dirs, made, exc, result, found, report_data, scan_result, static_result,
                 security_report, pushed>>

\* line 402
RunGgshieldScan ==
  /\ fpc = "ggshield"
  /\ \E n \in 0..MaxFound : \E r \in run_ggshield_scan(n) :
       /\ found' = [found EXCEPT !.secrets = n]
       /\ scan_result' = r
       /\ IF r.error.has THEN Fails("ggshield") ELSE failed' = failed
  /\ fpc' = "bandit"
  /\ UNCHANGED <<wf, dirs, made, exc, result, report_data, tool_info, static_result,
                 security_report, pushed>>

\* line 411
RunBanditScan ==
  /\ fpc = "bandit"
  /\ \E n \in 0..MaxFound : \E r \in run_bandit_scan(n) :
       /\ found' = [found EXCEPT !.static = n]
       /\ static_result' = r
       /\ IF r.error.has THEN Fails("bandit") ELSE failed' = failed
  /\ fpc' = "report"
  /\ UNCHANGED <<wf, dirs, made, exc, result, report_data, tool_info, scan_result,
                 security_report, pushed>>

\* lines 421-428
CreateReport ==
  /\ fpc = "report"
  /\ security_report' = SecurityReport(report_data, scan_result, static_result)
  /\ fpc' = "push_finally"
  /\ UNCHANGED <<wf, dirs, made, exc, result, failed, found, report_data, tool_info,
                 scan_result, static_result, pushed>>

\* lines 433-434
PushFinally ==
  /\ fpc = "push_finally"
  /\ Rmtree(PushDir)
  /\ fpc' = IF exc = "none" THEN "upsert" ELSE "except"
  /\ UNCHANGED <<wf, made, exc, result, failed, found, report_data, tool_info, scan_result,
                 static_result, security_report, pushed>>

\* lines 439-475: the record is built and given to add_server_to_mcp, which
\* raises when the bucket cannot be written
AddServerToMcp ==
  /\ fpc = "upsert"
  /\ \E ok \in BOOLEAN :
       IF ok
       THEN /\ pushed' = Append(pushed, [tools |-> tool_info, security_report |-> security_report])
            /\ result' = "success"
            /\ fpc' = "done"
            /\ UNCHANGED <<exc, failed>>
       ELSE /\ exc' = "ClientError"
            /\ Fails("upsert")
            /\ fpc' = "except"
            /\ UNCHANGED <<pushed, result>>
  /\ UNCHANGED <<wf, dirs, made, found, report_data, tool_info, scan_result, static_result,
                 security_report>>

\* lines 477-481
PushExcept ==
  /\ fpc = "except"
  /\ result' = "exit 1"
  /\ fpc' = "done"
  /\ UNCHANGED <<wf, dirs, made, exc, failed, found, report_data, tool_info, scan_result,
                 static_result, security_report, pushed>>

\* scan_mcp (ggshield.py), lines 267-270: not configured
ScanMcpConfigError ==
  /\ wf = "scan_mcp" /\ fpc = "scan_mcp"
  /\ result' = "HTTPException"
  /\ Fails("config")
  /\ fpc' = "done"
  /\ UNCHANGED <<wf, dirs, made, exc, found, report_data, tool_info, scan_result,
                 static_result, security_report, pushed>>

\* line 279
ScanMcpMkdtemp ==
  /\ wf = "scan_mcp" /\ fpc = "scan_mcp"
  /\ Mkdtemp(GgDir)
  /\ fpc' = "scan_mcp_lookup"
  /\ UNCHANGED <<wf, exc, result, failed, found, report_data, tool_info, scan_result,
                 static_result, security_report, pushed>>

\* lines 285-303: mcp.json cannot be fetched, the server is not in it or has no URL
ScanMcpLookup ==
  /\ fpc = "scan_mcp_lookup"
  /\ \E ok \in BOOLEAN :
       IF ok THEN fpc' = "scan_mcp_clone" /\ exc' = exc /\ failed' = failed
       ELSE fpc' = "scan_mcp_finally" /\ exc' = "HTTPException" /\ Fails("lookup")
  /\ UNCHANGED <<wf, dirs, made, result, found, report_data, tool_info, scan_result,
                 static_result, security_report, pushed>>

\* lines 314-316
ScanMcpClone ==
  /\ fpc = "scan_mcp_clone"
  /\ \E ok \in BOOLEAN :
       IF ok THEN fpc' = "scan_mcp_scan" /\ exc' = exc /\ failed' = failed /\ dirs' = dirs
       ELSE /\ Cleanup(GgDir)
            /\ fpc' = "scan_mcp_finally" /\ exc' = "HTTPException" /\ Fails("clone")
  /\ UNCHANGED <<wf, made, result, found, report_data, tool_info, scan_result, static_result,
                 security_report, pushed>>

\* lines 320-325
ScanMcpScan ==
  /\ fpc = "scan_mcp_scan"
  /\ \E n \in 0..MaxFound : \E r \in run_ggshield_scan(n) :
       /\ found' = [found EXCEPT !.secrets = n]
       /\ scan_result' = r
       /\ IF r.error.has
          THEN /\ Cleanup(GgDir)
               /\ fpc' = "scan_mcp_finally" /\ exc' = "HTTPException" /\ Fails("ggshield")
          ELSE fpc' = "scan_mcp_report" /\ exc' = exc /\ failed' = failed /\ dirs' = dirs
  /\ UNCHANGED <<wf, made, result, report_data, tool_info, static_result, security_report,
                 pushed>>

\* lines 329-359: save_report raises when it cannot write its file
ScanMcpReport ==
  /\ fpc = "scan_mcp_report"
  /\ \E saved \in BOOLEAN :
       IF saved THEN exc' = exc /\ failed' = failed
       ELSE exc' = "OSError" /\ Fails("save_report")
  /\ fpc' = "scan_mcp_finally"
  /\ UNCHANGED <<wf, dirs, made, result, found, report_data, tool_info, scan_result,
                 static_result, security_report, pushed>>

\* lines 361-366
ScanMcpFinally ==
  /\ fpc = "scan_mcp_finally"
  /\ Cleanup(GgDir)
  /\ result' = IF exc = "none" THEN "response" ELSE exc
  /\ fpc' = "done"
  /\ UNCHANGED <<wf, made, exc, failed, found, report_data, tool_info, scan_result,
                 static_result, security_report, pushed>>

\* main (snyk_scanner.py), lines 421-453: sys.exit before the clone
MainEarlyExit ==
  /\ wf = "main" /\ fpc = "main"
  /\ result' = "exit 1"
  /\ Fails("config")
  /\ fpc' = "done"
  /\ UNCHANGED <<wf, dirs, made, exc, found, report_data, tool_info, scan_result,
                 static_result, security_report, pushed>>

\* line 461
MainMkdtemp ==
  /\ wf = "main" /\ fpc = "main"
  /\ Mkdtemp(BanditDir)
  /\ fpc' = "main_clone"
  /\ UNCHANGED <<wf, exc, result, failed, found, report_data, tool_info, scan_result,
                 static_result, security_report, pushed>>

\* lines 464-465
MainClone ==
  /\ fpc = "main_clone"
  /\ \E ok \in BOOLEAN :
       IF ok THEN fpc' = "main_scan" /\ exc' = exc /\ failed' = failed
       ELSE fpc' = "main_finally" /\ exc' = "SystemExit" /\ Fails("clone")
  /\ UNCHANGED <<wf, dirs, made, result, found, report_data, tool_info, scan_result,
                 static_result, security_report, pushed>>

\* lines 468-477: the scan, its report, then sys.exit(0) or sys.exit(1)
MainScan ==
  /\ fpc = "main_scan"
  /\ \E n \in 0..MaxFound, scanned \in BOOLEAN :
       /\ found' = [found EXCEPT !.static = n]
       /\ static_result' = [ran |-> TRUE, ok |-> scanned /\ n = 0]
       /\ IF scanned THEN failed' = failed ELSE Fails("bandit")
  /\ exc' = "SystemExit"
  /\ fpc' = "main_finally"
  /\ UNCHANGED <<wf, dirs, made, result, report_data, tool_info, scan_result, security_report,
                 pushed>>

\* lines 479-482
MainFinally ==
  /\ fpc = "main_finally"
  /\ Rmtree(BanditDir)
  /\ result' = IF static_result # NotRun /\ static_result.ok THEN "exit 0" ELSE "exit 1"
  /\ fpc' = "done"
  /\ UNCHANGED <<wf, made, exc, failed, found, report_data, tool_info, scan_result,
                 static_result, security_report, pushed>>

Workflows == {"push", "scan_mcp", "main"}
NothingFound == [issues |-> 0, secrets |-> 0, static |-> 0]

FlowIdle ==
  /\ wf = "none"
  /\ fpc = "idle"
  /\ dirs = {}
  /\ made = <<>>
  /\ exc = "none"
  /\ result = "none"
  /\ failed = {}
  /\ found = NothingFound
  /\ report_data = NoReportData
  /\ tool_info = 0
  /\ scan_result = NotRun
  /\ static_result = NotRun
  /\ security_report = NoSecurityReport
  /\ pushed = <<>>

\* the invocation starts: no scratch directory of its own exists yet
InitFlow ==
  /\ wf \in Workflows
  /\ fpc = (IF wf = "push" THEN "run_analysis" ELSE wf)
  /\ dirs = {}
  /\ made = <<>>
  /\ exc = "none"
  /\ result = "running"
  /\ failed = {}
  /\ found = NothingFound
  /\ report_data = NoReportData
  /\ tool_info = 0
  /\ scan_result = NotRun
  /\ static_result = NotRun
  /\ security_report = NoSecurityReport
  /\ pushed = <<>>

(***************************************************************************)
(* The lookups of a server record by name.  A name is a sequence of         *)
(* letters; str.lower() maps each upper-case letter to its lower-case one.  *)
(***************************************************************************)
CaseNames == {<<"a">>, <<"A">>, <<"b">>, <<"a", "b">>, <<"A", "b">>, <<"A", "B">>}
LowerChar(c) == CASE c = "A" -> "a" [] c = "B" -> "b" [] OTHER -> c
Lower(name) == [i \in DOMAIN name |-> LowerChar(name[i])]

FirstIndex(S) == IF S = {} THEN 0 ELSE Min(S)

\* s3_handler.py, lines 15-18
check_server_exists(servers, name) ==
  FirstIndex({i \in 1..Len(servers) : servers[i].name = name})
\* s3_handler.py, lines 43-47
add_server_to_mcp_lookup(servers, name) == FirstIndex(Matches(servers, name))
\* cli.py, lines 189-193
search(servers, name) == FirstIndex({i \in 1..Len(servers) : servers[i].name = name})
\* cli.py, lines 516-520
pull(servers, name) == FirstIndex({i \in 1..Len(servers) : servers[i].name = name})
\* ggshield.py, lines 85-91
find_server_entry(servers, name) ==
  FirstIndex({i \in 1..Len(servers) : servers[i].name = name})
\* snyk_scanner.py, lines 248-251
find_mcp_by_name(servers, name) ==
  FirstIndex({i \in 1..Len(servers) : Lower(servers[i].name) = Lower(name)})

Lookups ==
  {"check_server_exists", "add_server_to_mcp", "search", "pull", "find_server_entry",
   "find_mcp_by_name"}

LookupHit(fn, servers, name) ==
  CASE fn = "check_server_exists" -> check_server_exists(servers, name)
    [] fn = "add_server_to_mcp" -> add_server_to_mcp_lookup(servers, name)
    [] fn = "search" -> search(servers, name)
    [] fn = "pull" -> pull(servers, name)
    [] fn = "find_server_entry" -> find_server_entry(servers, name)
    [] fn = "find_mcp_by_name" -> find_mcp_by_name(servers, name)

LookUp ==
  /\ lookPc = "call"
  /\ hit' = LookupHit(lookup, mcp_servers, asked)
  /\ lookPc' = "done"
  /\ UNCHANGED <<lookup, mcp_servers, asked>>

LookIdle ==
  /\ lookup = "none"
  /\ mcp_servers = <<>>
  /\ asked = <<>>
  /\ lookPc = "idle"
  /\ hit = 0

InitLook ==
  /\ lookup \in Lookups
  /\ mcp_servers \in SeqsUpTo({[name |-> n] : n \in CaseNames}, MaxServers)
  /\ asked \in CaseNames
  /\ lookPc = "call"
  /\ hit = 0

(***************************************************************************)
(* BanditScanner._parse_bandit_results (snyk_scanner.py).  An issue of the  *)
(* tool's report has a title (here its position in the report) and may have *)
(* issue_severity and issue_confidence.                                     *)
(***************************************************************************)
Levels == {"HIGH", "MEDIUM", "LOW", "Low", "UNDEFINED"}
\* str.upper() on these values
Upper(t) == IF t = "Low" THEN "LOW" ELSE t
Buckets == {"high", "medium", "low"}

\* lines 142-146 with .get(key, "low")
confidence_map(level) ==
  CASE level = "HIGH" -> "high"
    [] level = "MEDIUM" -> "medium"
    [] level = "LOW" -> "low"
    [] OTHER -> "low"

\* lines 151-152
severity(issue) == Upper(Get(issue.issue_severity, "UNDEFINED"))
confidence(issue) == Upper(Get(issue.issue_confidence, "UNDEFINED"))

SevKeyFromConfidence(issue) == confidence_map(confidence(issue))

\* line 155
SevKey(issue) == confidence_map(severity(issue))

\* lines 159-169
DetailedIssue(issue) ==
  [title |-> issue.title, severity |-> SevKey(issue),
   confidence |-> confidence_map(confidence(issue))]

\* lines 172-173: a stable sort on the rank of the severity
severity_order(sev) ==
  CASE sev = "high" -> 0 [] sev = "medium" -> 1 [] sev = "low" -> 2 [] OTHER -> 3
Ranked(issues, k) == SelectSeq(issues, LAMBDA x : severity_order(x.severity) = k)
Reverse(s) == [i \in 1..Len(s) |-> s[Len(s) + 1 - i]]
SortBySeverityReversesTies(issues) ==
  Reverse(Ranked(issues, 0)) \o Reverse(Ranked(issues, 1))
    \o Reverse(Ranked(issues, 2)) \o Reverse(Ranked(issues, 3))
SortBySeverity(issues) ==
  Ranked(issues, 0) \o Ranked(issues, 1) \o Ranked(issues, 2) \o Ranked(issues, 3)

\* lines 136-140 and 156-157
SeverityCounts(issues) ==
  [b \in Buckets |-> Cardinality({i \in 1..Len(issues) : SevKey(issues[i]) = b})]

\* lines 131-184
parse_bandit_results(issues) ==
  [ok |-> Len(issues) = 0,
   total_issues |-> Len(issues),
   severity_counts |-> SeverityCounts(issues),
   issues |-> SortBySeverity([i \in 1..Len(issues) |-> DetailedIssue(issues[i])])]

NotParsed == [ok |-> FALSE, total_issues |-> 0,
              severity_counts |-> [b \in Buckets |-> 0], issues |-> <<>>]

ReportIssues(n) ==
  [1..n -> [issue_severity : Opt(Levels), issue_confidence : Opt(Levels)]]
Titled(fields) ==
  [i \in DOMAIN fields |-> [title |-> i, issue_severity |-> fields[i].issue_severity,
                            issue_confidence |-> fields[i].issue_confidence]]

ParseBanditResults ==
  /\ parsePc = "call"
  /\ parsed' = parse_bandit_results(bandit_results)
  /\ parsePc' = "done"
  /\ UNCHANGED bandit_results

ParseIdle ==
  /\ bandit_results = <<>>
  /\ parsePc = "idle"
  /\ parsed = NotParsed

InitParse ==
  /\ bandit_results \in {Titled(f) : f \in UNION {ReportIssues(n) : n \in 0..MaxResults}}
  /\ parsePc = "call"
  /\ parsed = NotParsed

(***************************************************************************)
(* run_ggshield_scan (ggshield.py), step by step.  subprocess.run either    *)
(* raises or completes with an exit code and the text of stdout.            *)
(***************************************************************************)
\* exit codes of ggshield: 0 nothing found, 1 secrets found, 128 unexpected error
ReturnCodes == {0, 1, 128}
Stdouts == {"", "json", "not json"}
SubprocessRaises == {"TimeoutExpired", "FileNotFoundError", "PermissionError"}
Completed(code, out) == [raises |-> "", returncode |-> code, stdout |-> out]
RaisedBy(exn) == [raises |-> exn, returncode |-> 0, stdout |-> ""]
Subprocesses ==
  {RaisedBy(k) : k \in SubprocessRaises}
    \cup {Completed(c, o) : c \in ReturnCodes, o \in Stdouts}

\* a returned dict: the keys it holds and their values
Returned(ks, d) == [returned |-> TRUE, keys |-> ks, dict |-> d]
NoReturn == [returned |-> FALSE]
ErrorKeys == {"exit_code", "error"}
ResultKeys == {"exit_code", "stdout", "stderr", "scan_data"}

\* lines 136-141: the except clauses in order, and the dict each returns
ExceptClausesNoCatchAll == <<"TimeoutExpired", "FileNotFoundError">>
ExceptClauses == <<"TimeoutExpired", "FileNotFoundError", "Exception">>
IsInstance(exn, class) == exn = class \/ class = "Exception"
Handlers(exn) == {i \in 1..Len(ExceptClauses) : IsInstance(exn, ExceptClauses[i])}
Handled(exn) ==
  LET i == CHOOSE h \in Handlers(exn) : \A g \in Handlers(exn) : h <= g
  IN  CASE ExceptClauses[i] = "TimeoutExpired" -> GgDict(1, Some("Scanner timeout"), Missing)
        [] ExceptClauses[i] = "FileNotFoundError" ->
             GgDict(127,
                    Some("ggshield command not found. Install with: pip install ggshield"),
                    Missing)
        [] OTHER -> GgDict(1, Some("str(e)"), Missing)

\* lines 109-110
CheckApiKey ==
  /\ ggPc = "call"
  /\ IF ~api_key
       THEN /\ gg_return' = Returned(ErrorKeys,
                 GgDict(500, Some("GITGUARDIAN_API_KEY not configured on server"), Missing))
            /\ ggPc' = "done"
       ELSE /\ ggPc' = "run"
            /\ UNCHANGED gg_return
  /\ UNCHANGED <<api_key, in_path, ran, spawned, gg_raised>>

\* line 114, and lines 136-141 when it raises.  A missing executable starts no process.
SubprocessRun ==
  /\ ggPc = "run"
  /\ spawned' = IF ran.raises = "FileNotFoundError" THEN spawned ELSE spawned + 1
  /\ IF ran.raises = ""
       THEN /\ ggPc' = "parse"
            /\ UNCHANGED <<gg_return, gg_raised>>
       ELSE /\ ggPc' = "done"
            /\ IF Handlers(ran.raises) = {}
                 THEN gg_raised' = TRUE /\ UNCHANGED gg_return
                 ELSE /\ gg_return' = Returned(ErrorKeys, Handled(ran.raises))
                      /\ UNCHANGED gg_raised
  /\ UNCHANGED <<api_key, in_path, ran>>

\* lines 121-126: json.loads of a non-empty stdout; JSONDecodeError is passed over
ScanData(out, n) == IF out = "json" THEN Some(n) ELSE Missing

\* lines 121-135
ParseStdout ==
  /\ ggPc = "parse"
  /\ gg_return' = Returned(ResultKeys,
                            GgDict(ran.returncode, None, ScanData(ran.stdout, in_path)))
  /\ ggPc' = "done"
  /\ UNCHANGED <<api_key, in_path, ran, spawned, gg_raised>>

GgIdle ==
  /\ api_key = FALSE
  /\ in_path = 0
  /\ ran = RaisedBy("FileNotFoundError")
  /\ ggPc = "idle"
  /\ spawned = 0
  /\ gg_return = NoReturn
  /\ gg_raised = FALSE

InitGg ==
  /\ api_key \in BOOLEAN
  /\ in_path \in 0..MaxFound
  /\ ran \in Subprocesses
  /\ ggPc = "call"
  /\ spawned = 0
  /\ gg_return = NoReturn
  /\ gg_raised = FALSE

(***************************************************************************)
(* push (cli.py) from the existence check to add_server_to_mcp, for two     *)
(* invocations with the same name on one bucket.  A step is taken at each   *)
(* request to the bucket and at each prompt.                                *)
(***************************************************************************)
PushName == "a"
PushDocs == {NoObject} \cup {Object(s) : s \in SeqsUpTo(InitRecords, 1)}

\* check_server_exists (s3_handler.py), lines 8-22: NoSuchKey gives no record
ServerExists(obj, name) == obj.exists /\ HasExisting(obj.servers, name)

\* cli.py lines 332-337: the prompt is skipped with --force
AsksToOverwrite(exists, forced) == exists /\ ~forced
AfterPromptGoesOn(ans) == "analysis"
\* lines 334-336 and 340-341: sys.exit unless the user confirms
AfterPrompt(ans) == IF ans = "yes" THEN "analysis" ELSE "exited"

\* lines 329-337: the check answers
PushCheck(p) ==
  /\ pushPc[p] = "check"
  /\ checked' = [checked EXCEPT ![p] =
                   IF ServerExists(bucket, PushName) THEN "found" ELSE "absent"]
  /\ pushPc' = [pushPc EXCEPT ![p] =
                  IF AsksToOverwrite(ServerExists(bucket, PushName), force[p])
                  THEN "confirm" ELSE "analysis"]
  /\ UNCHANGED <<bucket, bucket0, force, answer, analysed, read_servers, puts, replaced>>

\* s3_handler.py lines 23-27 and cli.py lines 338-339: the check raises
PushCheckRaises(p) ==
  /\ pushPc[p] = "check"
  /\ checked' = [checked EXCEPT ![p] = "raised"]
  /\ pushPc' = [pushPc EXCEPT ![p] = "continue"]
  /\ UNCHANGED <<bucket, bucket0, force, answer, analysed, read_servers, puts, replaced>>

\* lines 334-336: "Do you want to overwrite it?"
ConfirmOverwrite(p) ==
  /\ pushPc[p] = "confirm"
  /\ \E ans \in {"yes", "no"} :
       /\ answer' = [answer EXCEPT ![p] = ans]
       /\ pushPc' = [pushPc EXCEPT ![p] = AfterPrompt(ans)]
  /\ UNCHANGED <<bucket, bucket0, force, checked, analysed, read_servers, puts, replaced>>

\* lines 340-341: "Continue anyway?"
ContinueAnyway(p) ==
  /\ pushPc[p] = "continue"
  /\ \E ans \in {"yes", "no"} :
       /\ answer' = [answer EXCEPT ![p] = ans]
       /\ pushPc' = [pushPc EXCEPT ![p] = AfterPrompt(ans)]
  /\ UNCHANGED <<bucket, bucket0, force, checked, analysed, read_servers, puts, replaced>>

\* lines 371-465: run_analysis, the clone and the scans; an exception exits
Analyse(p) ==
  /\ pushPc[p] = "analysis"
  /\ analysed' = [analysed EXCEPT ![p] = TRUE]
  /\ \E ok \in BOOLEAN :
       pushPc' = [pushPc EXCEPT ![p] = IF ok THEN "get" ELSE "exited"]
  /\ UNCHANGED <<bucket, bucket0, force, checked, answer, read_servers, puts, replaced>>

\* s3_handler.py lines 32-39: the read; NoSuchKey and every ClientError give []
AddGetObject(p) ==
  /\ pushPc[p] = "get"
  /\ \E client_error \in BOOLEAN :
       read_servers' = [read_servers EXCEPT ![p] =
                          IF client_error THEN <<>> ELSE bucket.servers]
  /\ pushPc' = [pushPc EXCEPT ![p] = "put"]
  /\ UNCHANGED <<bucket, bucket0, force, checked, answer, analysed, puts, replaced>>

\* lines 41-59: the upsert into what was read, and the write
AddPutObject(p) ==
  /\ pushPc[p] = "put"
  /\ bucket' = Object(UpsertServers(read_servers[p], ServerEntry(PushName, p)))
  /\ puts' = [puts EXCEPT ![p] = puts[p] + 1]
  /\ replaced' = [replaced EXCEPT ![p] = ServerExists(bucket, PushName)]
  /\ pushPc' = [pushPc EXCEPT ![p] = "done"]
  /\ UNCHANGED <<bucket0, force, checked, answer, analysed, read_servers>>

\* lines 54-59 and cli.py lines 477-481: put_object raises, push exits
AddPutObjectRaises(p) ==
  /\ pushPc[p] = "put"
  /\ pushPc' = [pushPc EXCEPT ![p] = "exited"]
  /\ UNCHANGED <<bucket, bucket0, force, checked, answer, analysed, read_servers,
                 puts, replaced>>

PushIdle ==
  /\ bucket = NoObject
  /\ bucket0 = NoObject
  /\ pushPc = [p \in Procs |-> "idle"]
  /\ force = [p \in Procs |-> FALSE]
  /\ checked = [p \in Procs |-> "no"]
  /\ answer = [p \in Procs |-> "unasked"]
  /\ analysed = [p \in Procs |-> FALSE]
  /\ read_servers = [p \in Procs |-> <<>>]
  /\ puts = [p \in Procs |-> 0]
  /\ replaced = [p \in Procs |-> FALSE]

InitPush ==
  /\ bucket \in PushDocs
  /\ bucket0 = bucket
  /\ pushPc = [p \in Procs |-> "check"]
  /\ force \in [Procs -> BOOLEAN]
  /\ checked = [p \in Procs |-> "no"]
  /\ answer = [p \in Procs |-> "unasked"]
  /\ analysed = [p \in Procs |-> FALSE]
  /\ read_servers = [p \in Procs |-> <<>>]
  /\ puts = [p \in Procs |-> 0]
  /\ replaced = [p \in Procs |-> FALSE]

(***************************************************************************)
(* create_sonarcloud_project (sonarqube.py) and the steps of run_analysis    *)
(* around it, for repeated runs on one project key.  The text of a response  *)
(* is a sequence of words.                                                   *)
(***************************************************************************)
LowerWord(w) ==
  CASE w = "Already" -> "already" [] w = "Exists" -> "exists"
    [] w = "Malformed" -> "malformed" [] OTHER -> w
\* str.lower()
LowerText(text) == [i \in DOMAIN text |-> LowerWord(text[i])]
\* phrase in text
Contains(text, phrase) ==
  \E i \in 1..Len(text) :
    i + Len(phrase) - 1 <= Len(text) /\ SubSeq(text, i, i + Len(phrase) - 1) = phrase

HttpResponse(code, text) == [raised |-> FALSE, status_code |-> code, text |-> text]
RequestException == [raised |-> TRUE, status_code |-> 0, text |-> <<>>]
AlreadyExistsText == <<"key", "Already", "Exists">>
\* what the service answers to POST /api/projects/create when it works
ServiceAnswer(exists) ==
  IF exists THEN HttpResponse(400, AlreadyExistsText) ELSE HttpResponse(200, <<>>)
\* and what else a call can meet: a rejected request, a refused or failing
\* service, a request that fails on the network
OtherAnswers ==
  {HttpResponse(400, <<"Malformed", "key">>), HttpResponse(400, <<"already", "taken">>),
   HttpResponse(401, <<>>), HttpResponse(500, <<>>), RequestException}

create_sonarcloud_project_400_fails(response) ==
  ~response.raised /\ response.status_code = 200

\* lines 54-72: the value returned
create_sonarcloud_project(response) ==
  IF response.raised THEN FALSE
  ELSE IF response.status_code = 200 THEN TRUE
  ELSE IF response.status_code = 400
       THEN \/ Contains(LowerText(response.text), <<"already", "exists">>)
            \/ Contains(LowerText(response.text), <<"already">>)
       ELSE FALSE

\* run_analysis is called
StartRunAnalysis ==
  /\ crPc \in {"start", "end"}
  /\ runs < MaxRuns
  /\ runs' = runs + 1
  /\ crPc' = "create"
  /\ warned' = FALSE
  /\ raised_at' = "none"
  /\ UNCHANGED <<project_exists, creations>>

\* run_analysis lines 383-385 with create_sonarcloud_project: a value of False
\* prints the warning and the run goes on.  A request that failed on the
\* network may have reached the service.
CreateSonarcloudProject ==
  /\ crPc = "create"
  /\ \E response \in {ServiceAnswer(project_exists)} \cup OtherAnswers :
       /\ creations' = Append(creations,
                              [existed |-> project_exists, response |-> response,
                               returned |-> create_sonarcloud_project(response)])
       /\ warned' = ~create_sonarcloud_project(response)
       /\ \/ response.status_code = 200 /\ project_exists' = TRUE
          \/ response.raised /\ project_exists' \in {project_exists, TRUE}
          \/ ~response.raised /\ response.status_code # 200 /\ UNCHANGED project_exists
  /\ crPc' = "clone"
  /\ UNCHANGED <<runs, raised_at>>

\* lines 387-389
CloneRepository ==
  /\ crPc = "clone"
  /\ \E ok \in BOOLEAN :
       IF ok THEN crPc' = "scanner" /\ UNCHANGED raised_at
       ELSE crPc' = "end" /\ raised_at' = "clone"
  /\ UNCHANGED <<project_exists, runs, creations, warned>>

\* lines 391-393 and what follows
RunScanner ==
  /\ crPc = "scanner"
  /\ crPc' = "end"
  /\ \E ok \in BOOLEAN : raised_at' = IF ok THEN "none" ELSE "scanner"
  /\ UNCHANGED <<project_exists, runs, creations, warned>>

CrIdle ==
  /\ project_exists = FALSE
  /\ crPc = "idle"
  /\ runs = 0
  /\ creations = <<>>
  /\ warned = FALSE
  /\ raised_at = "none"

InitCr ==
  /\ project_exists \in BOOLEAN
  /\ crPc = "start"
  /\ runs = 0
  /\ creations = <<>>
  /\ warned = FALSE
  /\ raised_at = "none"

(***************************************************************************)
(* Steps of one add_server_to_mcp call.                                    *)
(***************************************************************************)
Started == clock - 1

\* push builds the record (created_at = updated_at = now) and calls add_server_to_mcp
Call(p, n) ==
  /\ pc[p] = "idle"
  /\ Started < MaxCalls
  /\ clock' = clock + 1
  /\ server_data' = [server_data EXCEPT ![p] = ServerEntry(n, clock)]
  /\ pc' = [pc EXCEPT ![p] = "get"]
  /\ ret' = [ret EXCEPT ![p] = "none"]
  /\ UNCHANGED <<store, doc0, version, mcp_data, outcome, readVersion, hist>>

\* get_object succeeds: the document is parsed
GetObjectOk(p) ==
  /\ pc[p] = "get"
  /\ store.exists
  /\ mcp_data' = [mcp_data EXCEPT ![p] = store.servers]
  /\ outcome' = [outcome EXCEPT ![p] = "ok"]
  /\ readVersion' = [readVersion EXCEPT ![p] = version]
  /\ pc' = [pc EXCEPT ![p] = "put"]
  /\ UNCHANGED <<store, doc0, version, clock, server_data, ret, hist>>

\* get_object raises NoSuchKey: the object is absent
GetObjectNoSuchKey(p) ==
  /\ pc[p] = "get"
  /\ ~store.exists
  /\ mcp_data' = [mcp_data EXCEPT ![p] = <<>>]
  /\ outcome' = [outcome EXCEPT ![p] = "NoSuchKey"]
  /\ readVersion' = [readVersion EXCEPT ![p] = version]
  /\ pc' = [pc EXCEPT ![p] = "put"]
  /\ UNCHANGED <<store, doc0, version, clock, server_data, ret, hist>>

\* get_object raises another ClientError (access denied, throttling, ...):
\* the except clause of line 36 catches it as well
GetObjectClientError(p) ==
  /\ pc[p] = "get"
  /\ mcp_data' = [mcp_data EXCEPT ![p] = <<>>]
  /\ outcome' = [outcome EXCEPT ![p] = "ClientError"]
  /\ readVersion' = [readVersion EXCEPT ![p] = version]
  /\ pc' = [pc EXCEPT ![p] = "put"]
  /\ UNCHANGED <<store, doc0, version, clock, server_data, ret, hist>>

\* the call ends: its locals are gone
Return(p) ==
  /\ pc' = [pc EXCEPT ![p] = "idle"]
  /\ server_data' = [server_data EXCEPT ![p] = ServerEntry("a", 0)]
  /\ mcp_data' = [mcp_data EXCEPT ![p] = <<>>]
  /\ outcome' = [outcome EXCEPT ![p] = "none"]
  /\ readVersion' = [readVersion EXCEPT ![p] = 0]

\* get_object or json.loads raises something the except clause does not name
\* (no connection: EndpointConnectionError; a body that is not JSON): the
\* exception leaves add_server_to_mcp, nothing is written
GetObjectRaises(p) ==
  /\ pc[p] = "get"
  /\ ret' = [ret EXCEPT ![p] = "raised"]
  /\ Return(p)
  /\ UNCHANGED <<store, doc0, version, clock, hist>>

\* lines 39-61: the whole document is written back and True is returned
PutObject(p) ==
  /\ pc[p] = "put"
  /\ store' = Object(DocToWrite(p))
  /\ version' = version + 1
  /\ hist' = Append(hist, [proc |-> p,
                           name |-> server_data[p].name,
                           incoming |-> server_data[p],
                           outcome |-> outcome[p],
                           read |-> mcp_data[p],
                           readVersion |-> readVersion[p],
                           replaced |-> store,
                           written |-> DocToWrite(p)])
  /\ ret' = [ret EXCEPT ![p] = "True"]
  /\ Return(p)
  /\ UNCHANGED <<doc0, clock>>

\* put_object raises: the exception leaves add_server_to_mcp, nothing is written
PutObjectRaises(p) ==
  /\ pc[p] = "put"
  /\ ret' = [ret EXCEPT ![p] = "raised"]
  /\ Return(p)
  /\ UNCHANGED <<store, doc0, version, clock, hist>>

InitReg ==
  /\ doc0 \in InitDocs
  /\ store = doc0
  /\ version = 0
  /\ clock = 1
  /\ pc = [p \in Procs |-> "idle"]
  /\ server_data = [p \in Procs |-> ServerEntry("a", 0)]
  /\ mcp_data = [p \in Procs |-> <<>>]
  /\ outcome = [p \in Procs |-> "none"]
  /\ readVersion = [p \in Procs |-> 0]
  /\ ret = [p \in Procs |-> "none"]
  /\ hist = <<>>

\* the registry part at rest, for the specifications of the other parts
RegIdle ==
  /\ doc0 = NoObject
  /\ store = doc0
  /\ version = 0
  /\ clock = 1
  /\ pc = [p \in Procs |-> "idle"]
  /\ server_data = [p \in Procs |-> ServerEntry("a", 0)]
  /\ mcp_data = [p \in Procs |-> <<>>]
  /\ outcome = [p \in Procs |-> "none"]
  /\ readVersion = [p \in Procs |-> 0]
  /\ ret = [p \in Procs |-> "none"]
  /\ hist = <<>>

\* each part of the model leaves the variables of the other parts alone
RegFrame == UNCHANGED <<aggVars, pageVars, pollVars, flowVars, lookVars,
                        parseVars, ggVars, pushVars, crVars>>
AggFrame == UNCHANGED <<regVars, pageVars, pollVars, flowVars, lookVars,
                        parseVars, ggVars, pushVars, crVars>>
PageFrame == UNCHANGED <<regVars, aggVars, pollVars, flowVars, lookVars,
                         parseVars, ggVars, pushVars, crVars>>
PollFrame == UNCHANGED <<regVars, aggVars, pageVars, flowVars, lookVars,
                         parseVars, ggVars, pushVars, crVars>>
FlowFrame == UNCHANGED <<regVars, aggVars, pageVars, pollVars, lookVars,
                         parseVars, ggVars, pushVars, crVars>>
LookFrame == UNCHANGED <<regVars, aggVars, pageVars, pollVars, flowVars,
                         parseVars, ggVars, pushVars, crVars>>
ParseFrame == UNCHANGED <<regVars, aggVars, pageVars, pollVars, flowVars,
                          lookVars, ggVars, pushVars, crVars>>
GgFrame == UNCHANGED <<regVars, aggVars, pageVars, pollVars, flowVars,
                       lookVars, parseVars, pushVars, crVars>>
PushFrame == UNCHANGED <<regVars, aggVars, pageVars, pollVars, flowVars,
                         lookVars, parseVars, ggVars, crVars>>
CrFrame == UNCHANGED <<regVars, aggVars, pageVars, pollVars, flowVars,
                       lookVars, parseVars, ggVars, pushVars>>

Init ==
  InitReg /\ AggIdle /\ PageIdle /\ PollIdle /\ FlowIdle /\ LookIdle
    /\ ParseIdle /\ GgIdle /\ PushIdle /\ CrIdle

\* no other call is between its get_object and its put_object
Alone(p) == \A q \in Procs \ {p} : pc[q] = "idle"

\* calls one after the other
NextSeq ==
  \/ \E p \in Procs, n \in Names : Alone(p) /\ Call(p, n) /\ RegFrame
  \/ \E p \in Procs : Alone(p) /\ GetObjectOk(p) /\ RegFrame
  \/ \E p \in Procs : Alone(p) /\ GetObjectNoSuchKey(p) /\ RegFrame
  \/ \E p \in Procs : Alone(p) /\ GetObjectClientError(p) /\ RegFrame
  \/ \E p \in Procs : Alone(p) /\ GetObjectRaises(p) /\ RegFrame
  \/ \E p \in Procs : Alone(p) /\ PutObject(p) /\ RegFrame
  \/ \E p \in Procs : Alone(p) /\ PutObjectRaises(p) /\ RegFrame

SpecSeq == Init /\ [][NextSeq]_vars

\* calls of two callers, their reads and writes interleaved
NextConc ==
  \/ \E p \in Procs, n \in Names : Call(p, n) /\ RegFrame
  \/ \E p \in Procs : GetObjectOk(p) /\ RegFrame
  \/ \E p \in Procs : GetObjectNoSuchKey(p) /\ RegFrame
  \/ \E p \in Procs : GetObjectClientError(p) /\ RegFrame
  \/ \E p \in Procs : GetObjectRaises(p) /\ RegFrame
  \/ \E p \in Procs : PutObject(p) /\ RegFrame
  \/ \E p \in Procs : PutObjectRaises(p) /\ RegFrame

SpecConc == Init /\ [][NextConc]_vars

\* create_security_report applied to every input within the bounds
NextAgg ==
  CreateSecurityReport /\ AggFrame

InitAggOnly ==
  RegIdle /\ InitAgg /\ PageIdle /\ PollIdle /\ FlowIdle /\ LookIdle
    /\ ParseIdle /\ GgIdle /\ PushIdle /\ CrIdle

\* fetch_issues and fetch_hotspots against every service within the bounds
NextPage ==
  \/ FetchPage /\ PageFrame
  \/ FetchFails /\ PageFrame

InitPageOnly ==
  RegIdle /\ AggIdle /\ InitPage /\ PollIdle /\ FlowIdle /\ LookIdle
    /\ ParseIdle /\ GgIdle /\ PushIdle /\ CrIdle

\* the loop is a running program and every request has a timeout of 30 s:
\* the next iteration is always taken
SpecPage == InitPageOnly /\ [][NextPage]_vars /\ WF_vars(NextPage)

SpecAgg == InitAggOnly /\ [][NextAgg]_vars

\* the poller against every sequence of status responses, then run_analysis
NextPoll ==
  \/ PollAgain /\ PollFrame
  \/ PollReturns /\ PollFrame
  \/ PollTimeout /\ PollFrame
  \/ Proceed /\ PollFrame

InitPollOnly ==
  RegIdle /\ AggIdle /\ PageIdle /\ InitPoll /\ FlowIdle /\ LookIdle
    /\ ParseIdle /\ GgIdle /\ PushIdle /\ CrIdle

\* the function is a running program, every request has a timeout and every
\* sleep ends: the next step is always taken
SpecPoll == InitPollOnly /\ [][NextPoll]_vars /\ WF_vars(NextPoll)

\* one invocation of a workflow, every step with each of its outcomes
NextFlow ==
  \/ RunAnalysisConfigError /\ FlowFrame
  \/ RunAnalysisMkdtemp /\ FlowFrame
  \/ CreateProject /\ FlowFrame
  \/ RunAnalysisClone /\ FlowFrame
  \/ RunSonarScanner /\ FlowFrame
  \/ WaitForAnalysis /\ FlowFrame
  \/ FetchAndSaveReport /\ FlowFrame
  \/ RunAnalysisFinally /\ FlowFrame
  \/ PushMkdtemp /\ FlowFrame
  \/ PushClone /\ FlowFrame
  \/ DiscoverTools /\ FlowFrame
  \/ RunGgshieldScan /\ FlowFrame
  \/ RunBanditScan /\ FlowFrame
  \/ CreateReport /\ FlowFrame
  \/ PushFinally /\ FlowFrame
  \/ AddServerToMcp /\ FlowFrame
  \/ PushExcept /\ FlowFrame
  \/ ScanMcpConfigError /\ FlowFrame
  \/ ScanMcpMkdtemp /\ FlowFrame
  \/ ScanMcpLookup /\ FlowFrame
  \/ ScanMcpClone /\ FlowFrame
  \/ ScanMcpScan /\ FlowFrame
  \/ ScanMcpReport /\ FlowFrame
  \/ ScanMcpFinally /\ FlowFrame
  \/ MainEarlyExit /\ FlowFrame
  \/ MainMkdtemp /\ FlowFrame
  \/ MainClone /\ FlowFrame
  \/ MainScan /\ FlowFrame
  \/ MainFinally /\ FlowFrame

InitFlowOnly ==
  RegIdle /\ AggIdle /\ PageIdle /\ PollIdle /\ InitFlow /\ LookIdle
    /\ ParseIdle /\ GgIdle /\ PushIdle /\ CrIdle

\* the process runs on: a step that can be taken is taken
SpecFlow == InitFlowOnly /\ [][NextFlow]_vars /\ WF_vars(NextFlow)

\* every lookup function on every servers list and name within the bounds
NextLook ==
  LookUp /\ LookFrame

InitLookOnly ==
  RegIdle /\ AggIdle /\ PageIdle /\ PollIdle /\ FlowIdle /\ InitLook
    /\ ParseIdle /\ GgIdle /\ PushIdle /\ CrIdle

SpecLook == InitLookOnly /\ [][NextLook]_vars

\* _parse_bandit_results on every report within the bounds
NextParse ==
  ParseBanditResults /\ ParseFrame

InitParseOnly ==
  RegIdle /\ AggIdle /\ PageIdle /\ PollIdle /\ FlowIdle /\ LookIdle /\ InitParse
    /\ GgIdle /\ PushIdle /\ CrIdle

SpecParse == InitParseOnly /\ [][NextParse]_vars

\* run_ggshield_scan with and without the API key, on every end of the subprocess
NextGg ==
  \/ CheckApiKey /\ GgFrame
  \/ SubprocessRun /\ GgFrame
  \/ ParseStdout /\ GgFrame

InitGgOnly ==
  RegIdle /\ AggIdle /\ PageIdle /\ PollIdle /\ FlowIdle /\ LookIdle
    /\ ParseIdle /\ InitGg /\ PushIdle /\ CrIdle

SpecGg == InitGgOnly /\ [][NextGg]_vars

\* two pushes of one name, their requests and prompts interleaved
NextPush ==
  \/ \E p \in Procs : PushCheck(p) /\ PushFrame
  \/ \E p \in Procs : PushCheckRaises(p) /\ PushFrame
  \/ \E p \in Procs : ConfirmOverwrite(p) /\ PushFrame
  \/ \E p \in Procs : ContinueAnyway(p) /\ PushFrame
  \/ \E p \in Procs : Analyse(p) /\ PushFrame
  \/ \E p \in Procs : AddGetObject(p) /\ PushFrame
  \/ \E p \in Procs : AddPutObject(p) /\ PushFrame
  \/ \E p \in Procs : AddPutObjectRaises(p) /\ PushFrame

InitPushOnly ==
  RegIdle /\ AggIdle /\ PageIdle /\ PollIdle /\ FlowIdle /\ LookIdle
    /\ ParseIdle /\ GgIdle /\ InitPush /\ CrIdle

SpecPush == InitPushOnly /\ [][NextPush]_vars

\* run_analysis again and again on one project key, against every answer
NextCr ==
  \/ StartRunAnalysis /\ CrFrame
  \/ CreateSonarcloudProject /\ CrFrame
  \/ CloneRepository /\ CrFrame
  \/ RunScanner /\ CrFrame

InitCrOnly ==
  RegIdle /\ AggIdle /\ PageIdle /\ PollIdle /\ FlowIdle /\ LookIdle
    /\ ParseIdle /\ GgIdle /\ PushIdle /\ InitCr

SpecCr == InitCrOnly /\ [][NextCr]_vars

(***************************************************************************)
(* Properties of the registry.                                             *)
(***************************************************************************)
Count(servers, name) == Cardinality(Matches(servers, name))
NoDuplicateNames(servers) == \A n \in Names : Count(servers, n) <= 1
Last(s) == s[Len(s)]
\* the record a call of hist wrote: the last one of the document it put
Written(h) == Last(h.written)
\* the registry holds the record that call h wrote (a record is told by its time stamp)
Holds(servers, h) ==
  \E k \in 1..Len(servers) :
    /\ servers[k].name = h.name
    /\ servers[k].meta.updated_at = h.incoming.meta.updated_at

\* C1: after any sequence of add_server_to_mcp calls (one after the other) the
\* stored registry holds exactly one record for every name that was upserted.
C1_OneRecordPerUpsertedName ==
  \A i \in 1..Len(hist) : Count(store.servers, hist[i].name) = 1

\* the half of C1 that the code keeps: never two records of an upserted name
C1_AtMostOnePerUpsertedName ==
  \A i \in 1..Len(hist) : Count(store.servers, hist[i].name) <= 1

\* C2: an upsert of a name the registry already holds writes a record with the
\* created_at of the stored record and the updated_at of the incoming record, and
\* over the upserts of one name created_at stays that of the first upsert.
\* (The stored record is the one record of that name, when it has a meta block.)
C2_CreatedAtPreserved ==
  \A i \in 1..Len(hist) :
    LET h == hist[i]
        old == h.replaced.servers
    IN /\ Written(h).meta.updated_at = h.incoming.meta.updated_at
       /\ (Count(old, h.name) = 1 /\ ExistingServer(old, h.name).meta.has)
            => Written(h).meta.created_at = ExistingServer(old, h.name).meta.created_at
       /\ \A j \in 1..(i - 1) :
            hist[j].name = h.name
              => Written(h).meta.created_at = Written(hist[j]).meta.created_at

\* C3: for a registry R and records A, B of distinct names, neither in R, the
\* call for A followed by the call for B yields R followed by A then B.
C3_AppendOrder ==
  ( /\ Len(hist) = 2
    /\ hist[1].name # hist[2].name
    /\ ~HasExisting(doc0.servers, hist[1].name)
    /\ ~HasExisting(doc0.servers, hist[2].name) )
  => store.servers = doc0.servers \o <<hist[1].incoming, hist[2].incoming>>

\* What remains of C1, C2 and C3 in the runs in which no read of the registry
\* failed with another error than NoSuchKey (the failures C6 is about).
ReadsSucceeded == \A i \in 1..Len(hist) : hist[i].outcome \in {"ok", "NoSuchKey"}
OneRecordPerUpsertedName_ReadsSucceeded == ReadsSucceeded => C1_OneRecordPerUpsertedName
CreatedAtPreserved_ReadsSucceeded == ReadsSucceeded => C2_CreatedAtPreserved
AppendOrder_ReadsSucceeded == ReadsSucceeded => C3_AppendOrder


\* C4: when two concurrent calls both read the registry before either writes, the
\* registry after the second write lacks the record the first writer wrote, and
\* both calls return True (no error reaches either caller).
BothReadBeforeEitherWrote ==
  /\ Len(hist) = 2
  /\ hist[1].proc # hist[2].proc
  /\ hist[2].readVersion = hist[1].readVersion

C4_LostUpdate ==
  BothReadBeforeEitherWrote =>
    /\ ~Holds(store.servers, hist[1])
    /\ Holds(store.servers, hist[2])
    /\ \A p \in Procs : (pc[p] = "idle" /\ Started = 2) => ret[p] = "True"

\* two names: the first writer's name is lost altogether
C4_Witness ==
  /\ BothReadBeforeEitherWrote
  /\ hist[1].name # hist[2].name
  /\ hist[1].outcome = "ok" /\ hist[2].outcome = "ok"
  /\ ~HasExisting(store.servers, hist[1].name)
  /\ \A p \in Procs : ret[p] = "True"

\* one name: the record of the second writer replaces that of the first
C4_WitnessSameName ==
  /\ BothReadBeforeEitherWrote
  /\ hist[1].name = hist[2].name
  /\ hist[1].outcome = "ok" /\ hist[2].outcome = "ok"
  /\ \A p \in Procs : ret[p] = "True"

\* C5: under any interleaving of the reads and writes of concurrent calls the
\* stored registry has at most one record per name, given that the document at
\* the start has at most one record per name.
C5_AtMostOnePerName ==
  NoDuplicateNames(doc0.servers) => NoDuplicateNames(store.servers)

C5_Witness ==
  /\ BothReadBeforeEitherWrote
  /\ NoDuplicateNames(doc0.servers)
  /\ hist[1].name = hist[2].name
  /\ HasExisting(doc0.servers, hist[1].name)
  /\ Len(doc0.servers) = 2
  /\ hist[1].outcome = "ok" /\ hist[2].outcome = "ok"

\* C6: a read of the registry that fails for another reason than the object
\* being absent is surfaced to the caller: no put_object follows it.
C6_ReadFailureSurfaced ==
  \A i \in 1..Len(hist) : hist[i].outcome \in {"ok", "NoSuchKey"}

(***************************************************************************)
(* Properties of create_security_report.                                   *)
(***************************************************************************)
\* the three counts of the claim, a missing field counted as 0
QualityIssues == IF sonarqube_data.issue_total.has THEN sonarqube_data.issue_total.val ELSE 0
Secrets == IF ggshield_result.total_secrets.has THEN ggshield_result.total_secrets.val ELSE 0
StaticIssues == IF bandit_result.total_issues.has THEN bandit_result.total_issues.val ELSE 0
StaticHigh == IF bandit_result.high.has THEN bandit_result.high.val ELSE 0
\* the coverage as a number of whole percents, when it is a number or a string of digits
CoverageIs(n) ==
  \/ sonarqube_data.coverage.kind = "num" /\ sonarqube_data.coverage.num = n
  \/ sonarqube_data.coverage.kind = "str" /\ n = 90 /\ sonarqube_data.coverage.str = <<"9", "0">>
  \/ sonarqube_data.coverage.kind = "str" /\ n = 80 /\ sonarqube_data.coverage.str = <<"8", "0">>
  \/ sonarqube_data.coverage.kind = "str" /\ n = 79 /\ sonarqube_data.coverage.str = <<"7", "9">>
\* coverage counted as 0 when missing, None, empty or unparsable
CoverageUnusable ==
  \/ sonarqube_data.coverage.kind \in {"missing", "none"}
  \/ sonarqube_data.coverage.kind = "str" /\ ~IsFloatLiteral(sonarqube_data.coverage.str)
CoverageUnder80 ==
  \/ CoverageUnusable
  \/ sonarqube_data.coverage.kind = "num" /\ sonarqube_data.coverage.num < 80
  \/ /\ sonarqube_data.coverage.kind = "str"
     /\ IsFloatLiteral(sonarqube_data.coverage.str)
     /\ Decimal(SubSeq(sonarqube_data.coverage.str, 1, PointAt(sonarqube_data.coverage.str) - 1)) < 80

\* C7: total_issues_all_scanners is the sum of the three counts (a missing field
\* counted as 0) and scan_passed is true exactly when all three counts are 0.
C7_TotalAndScanPassed ==
  aggPc = "done" =>
    /\ unified_report.total_issues_all_scanners = QualityIssues + Secrets + StaticIssues
    /\ unified_report.scan_passed <=> (QualityIssues = 0 /\ Secrets = 0 /\ StaticIssues = 0)

C7_Witness ==
  /\ aggPc = "done"
  /\ QualityIssues = 0 /\ Secrets = 0 /\ StaticIssues = 1
  /\ ~sonarqube_data.issue_total.has
  /\ unified_report.total_issues_all_scanners = 1
  /\ ~unified_report.scan_passed

\* C8, as claimed: with all three counts 0 the recommendations are exactly the
\* all-passed line, whatever the coverage is.
C8_AllZeroGivesAllPassed ==
  (aggPc = "done" /\ QualityIssues = 0 /\ Secrets = 0 /\ StaticIssues = 0) =>
    /\ unified_report.scan_passed
    /\ unified_report.recommendations = <<RecAllPassed>>

\* C8, amended: with all three counts 0, scan_passed is true; the recommendations
\* are exactly the all-passed line when moreover the static high-severity count
\* is 0 and the coverage is at least 80, and exactly the coverage line when the
\* high-severity count is 0 and the coverage is under 80 (or missing, unparsable).
C8_AllZeroAndCoveredGivesAllPassed ==
  (aggPc = "done" /\ QualityIssues = 0 /\ Secrets = 0 /\ StaticIssues = 0) =>
    /\ unified_report.scan_passed
    /\ (StaticHigh = 0 /\ ~CoverageUnder80) => unified_report.recommendations = <<RecAllPassed>>
    /\ (StaticHigh = 0 /\ CoverageUnder80) => unified_report.recommendations = <<RecCoverage>>

C8_Witness ==
  /\ aggPc = "done"
  /\ QualityIssues = 0 /\ Secrets = 0 /\ StaticIssues = 0 /\ StaticHigh = 0
  /\ sonarqube_data.coverage.kind = "str"
  /\ sonarqube_data.coverage.str = <<"8", "0">>
  /\ unified_report.recommendations = <<RecAllPassed>>

\* C9: the recommendations are the lines of the rules that hold, in the order
\* critical, rotate credentials, review and fix, prioritize, coverage, each at
\* most once, and the all-passed line alone when none of them holds; the list is
\* never empty; secrets = 2 with the other counts 0 and coverage 90 gives
\* [critical, rotate credentials], total 2 and scan_passed false.
Line(cond, line) == IF cond THEN <<line>> ELSE <<>>
RulesOneToFive ==
  Line(QualityIssues > 5 \/ Secrets > 0 \/ StaticHigh > 0, RecCritical)
    \o Line(Secrets > 0, RecSecrets)
    \o Line(StaticIssues > 0, RecVulnerabilities)
    \o Line(StaticHigh > 0, RecHighSeverity)
    \o Line(CoverageUnder80, RecCoverage)

C9_RecommendationRules ==
  aggPc = "done" =>
    /\ unified_report.recommendations =
         (IF RulesOneToFive = <<>> THEN <<RecAllPassed>> ELSE RulesOneToFive)
    /\ unified_report.recommendations # <<>>
    /\ (Secrets = 2 /\ QualityIssues = 0 /\ StaticIssues = 0 /\ StaticHigh = 0 /\ CoverageIs(90))
         => /\ unified_report.recommendations = <<RecCritical, RecSecrets>>
            /\ unified_report.total_issues_all_scanners = 2
            /\ ~unified_report.scan_passed

C9_Witness ==
  /\ aggPc = "done"
  /\ Secrets = 2 /\ QualityIssues = 0 /\ StaticIssues = 0 /\ StaticHigh = 0
  /\ sonarqube_data.coverage.kind = "str" /\ CoverageIs(90)
  /\ unified_report.recommendations = <<RecCritical, RecSecrets>>

\* all five rules fire together, in order
C9_WitnessAllRules ==
  /\ aggPc = "done"
  /\ unified_report.recommendations =
       <<RecCritical, RecSecrets, RecVulnerabilities, RecHighSeverity, RecCoverage>>

(***************************************************************************)
(* Properties of the pagination loops.                                     *)
(***************************************************************************)
Max(a, b) == IF a >= b THEN a ELSE b
LargestTotal == CHOOSE t \in TotalChoices : \A u \in TotalChoices : u <= t
\* the total the last response reports, where it is read for this kind of search
ReportedTotal ==
  IF kind = "issues"
  THEN (IF resp.total.has THEN resp.total.val ELSE 0)
  ELSE (IF resp.paging.has /\ resp.paging.val.total.has THEN resp.paging.val.total.val ELSE 0)
\* the chunks are the pages 1..n in order and hold the rows 1..T of a faithful service
HoldsRowsUpTo(chunks, T) ==
  /\ \A i \in 1..Len(chunks) : chunks[i].page = i
  /\ \A i \in 1..(Len(chunks) - 1) : chunks[i].count = PageSize
  /\ RowCount(chunks) = T

\* the loop stops after a page exactly when the rows so far reach the reported
\* total or the page is short; a faithful service holding T rows gets
\* max(1, ceil(T/500)) requests and all T rows are returned; the number of
\* requests stays within what the largest total a service reports allows
PaginationStops ==
  /\ resp.status = "ok" =>
       (pagePc = "done" <=> (RowCount(all_rows) >= ReportedTotal \/ resp.rows < PageSize))
  /\ (pagePc = "done" /\ server.faithful) =>
       /\ requests = Max(1, (server.T + PageSize - 1) \div PageSize)
       /\ HoldsRowsUpTo(all_rows, server.T)
  /\ requests <= 1 + (LargestTotal \div PageSize)
  /\ pagePc = "request" => requests = page - 1

C10_WitnessNoShortPage ==
  /\ pagePc = "done"
  /\ ~server.faithful
  /\ resp.status = "ok" /\ resp.rows >= PageSize
  /\ requests = MaxTotalPages

(***************************************************************************)
(* Properties of the analysis poller.                                      *)
(***************************************************************************)
Answered(r) == ~r.raised /\ r.status_code = 200
Queued(r) == Answered(r) /\ r.queue
NonTerminal(r) == Answered(r) /\ (r.queue \/ r.current \in {"PENDING", "IN_PROGRESS"})
IsSuccess(r) == Answered(r) /\ ~r.queue /\ r.current = "SUCCESS"
\* the responses so far are non-terminal ones, the last one possibly SUCCESS
NonTerminalThenSuccess ==
  /\ \A i \in 1..Len(seen) - 1 : NonTerminal(seen[i])
  /\ seen # <<>> => NonTerminal(Last(seen)) \/ IsSuccess(Last(seen))
NonTerminalSeen == Cardinality({i \in 1..Len(seen) : NonTerminal(seen[i])})
SawSuccessLast == seen # <<>> /\ IsSuccess(Last(seen))
ExactlyKSleeps ==
  /\ SawSuccessLast
  /\ sleeps = NonTerminalSeen
  /\ polls = NonTerminalSeen + 1
  /\ ready

\* C11, as claimed: against k non-terminal responses (queued, PENDING, IN_PROGRESS)
\* followed by SUCCESS, with 3*k < max_wait, the poller returns after exactly k
\* sleeps and k+1 requests with ready = true.
C11_SleepsPerNonTerminal ==
  (pollPc = "returned" /\ NonTerminalThenSuccess
     /\ SleepSeconds * NonTerminalSeen < max_wait) => ExactlyKSleeps

\* C11, amended: when the k sleeps and the time the k requests took stay below
\* max_wait, the poller goes on to the SUCCESS response and returns after exactly
\* k sleeps and k+1 requests with ready = true (2 sleeps for QUEUED, IN_PROGRESS,
\* SUCCESS); it gives up earlier only when that time has reached max_wait.
C11_SleepsPerNonTerminalInTime ==
  (pollPc = "returned" /\ NonTerminalThenSuccess) =>
     \/ ExactlyKSleeps
     \/ ~SawSuccessLast /\ sleeps = NonTerminalSeen /\ polls = NonTerminalSeen
          /\ ~(elapsed < max_wait)

C11_Witness ==
  /\ pollPc = "returned"
  /\ Len(seen) = 3
  /\ Queued(seen[1])
  /\ Answered(seen[2]) /\ ~seen[2].queue /\ seen[2].current = "IN_PROGRESS"
  /\ IsSuccess(seen[3])
  /\ sleeps = 2
  /\ ready

\* a run that gives up although 3*k < max_wait: the requests took the rest
C11_WitnessSlowRequests ==
  /\ pollPc = "returned"
  /\ NonTerminalThenSuccess
  /\ ~SawSuccessLast
  /\ NonTerminalSeen = 2
  /\ SleepSeconds * NonTerminalSeen < max_wait

Waiting(r) == r.raised \/ r.status_code # 200 \/ NonTerminal(r)
NoTerminalSeen == \A i \in 1..Len(seen) : Waiting(seen[i])

\* C12: when max_wait has elapsed and no response showed a terminal status (only
\* queued, PENDING, IN_PROGRESS, non-200 answers and request errors), the poller
\* makes no further request and returns ready = true.
C12_TimeoutReturnsReady ==
  /\ []((pollPc = "returned" /\ NoTerminalSeen) => ready /\ ~(elapsed < max_wait))
  /\ [][(pollPc = "loop" /\ ~(elapsed < max_wait)) => (polls' = polls /\ ready')]_vars
  /\ ((pollPc = "loop" /\ ~(elapsed < max_wait)) ~> (pollPc = "returned" /\ ready))

C12_Witness ==
  /\ pollPc = "returned"
  /\ Len(seen) = 3
  /\ seen[1].raised
  /\ ~seen[2].raised /\ seen[2].status_code # 200
  /\ NonTerminal(seen[3])
  /\ ready

ShowsOtherTerminal(r) == Answered(r) /\ r.current \in {"FAILED", "CANCELED"}
StopsNotReady(i) == i = Len(seen) /\ polls = i /\ pollPc = "returned" /\ ~ready
FetchesMade ==
  /\ Len(fetched) >= 3
  /\ SubSeq(fetched, 1, 3) = <<"fetch_issues", "fetch_hotspots", "fetch_measures">>

\* C16, as claimed: a response that shows a current task with a terminal status
\* other than SUCCESS ends the polling at once with ready = false.
C16_OtherTerminalStops ==
  \A i \in 1..Len(seen) : ShowsOtherTerminal(seen[i]) => StopsNotReady(i)

\* C16, amended: a response with an empty queue that shows a current task with a
\* terminal status other than SUCCESS ends the polling at once with ready = false;
\* run_analysis then still calls fetch_issues, fetch_hotspots and fetch_measures.
C16_OtherTerminalStopsWhenNotQueued ==
  /\ [](\A i \in 1..Len(seen) :
          (ShowsOtherTerminal(seen[i]) /\ ~seen[i].queue) => StopsNotReady(i))
  /\ ((pollPc = "returned" /\ ~ready) ~> FetchesMade)

C16_Witness ==
  /\ Len(seen) = 2
  /\ ShowsOtherTerminal(seen[2]) /\ ~seen[2].queue
  /\ ~ready
  /\ FetchesMade

\* C17: when the request for page n fails, the loop ends: the function returns
\* the rows of pages 1..n-1 as they were accumulated, in page order, and asks
\* for no further page.
C17_FailedPageKeepsAccumulated ==
  /\ [](resp = Failure =>
          /\ pagePc = "done"
          /\ requests = page
          /\ Len(all_rows) = page - 1
          /\ \A i \in 1..Len(all_rows) : all_rows[i].page = i)
  /\ [][resp' = Failure => all_rows' = all_rows]_vars
  /\ [][pagePc = "done" => (requests' = requests /\ all_rows' = all_rows)]_vars

C17_Witness ==
  /\ resp = Failure
  /\ pagePc = "done"
  /\ page = 3
  /\ Len(all_rows) = 2
  /\ all_rows[1].count = PageSize

(***************************************************************************)
(* Properties of the workflows.                                            *)
(***************************************************************************)
RunAnalysisSteps ==
  {"create_project", "clone", "scanner", "wait", "fetch", "run_analysis_finally"}
ScanSectionSteps ==
  {"push_clone", "discover", "ggshield", "bandit", "report", "push_finally"}
Created(d) == \E i \in 1..Len(made) : made[i] = d

C13_WitnessEveryWorkflow ==
  /\ fpc = "done"
  /\ wf \in {"scan_mcp", "main"}
  /\ made # <<>>
  /\ failed # {}
  /\ dirs = {}

Aborted == pushed = <<>> /\ result = "exit 1"
Upserted == Len(pushed) = 1 /\ result = "success"

\* C14: in push the failure of a clone or of the code-quality scanner aborts the
\* workflow without a call of add_server_to_mcp, and the failure of project
\* creation, polling, a fetch, tool discovery, the secret scan or the static scan
\* does not.
C14_OnlyCloneAndScannerAbort ==
  (wf = "push" /\ fpc = "done") =>
     /\ failed \cap {"clone", "clone2", "scanner"} # {} => Aborted
     /\ (failed # {} /\
         failed \subseteq {"create_project", "poll", "fetch", "discover", "ggshield", "bandit"})
           => Upserted

\* the same without the clone of the scan section
OnlyFirstCloneAndScannerAbort ==
  (wf = "push" /\ fpc = "done") =>
     /\ failed \cap {"clone", "scanner"} # {} => Aborted
     /\ (failed # {} /\
         failed \subseteq {"create_project", "poll", "fetch", "discover", "ggshield", "bandit"})
           => Upserted

SecretsFound == IF scan_result.scan_data.has THEN scan_result.scan_data.val ELSE 0
StaticCount == IF static_result.total_issues.has THEN static_result.total_issues.val ELSE 0

\* C15: the unified report of the upserted record counts what the adapters
\* found: total_issues_all_scanners is summary.total_issues of the run_analysis
\* report plus the secrets of run_ggshield_scan plus the static issue count, and
\* gitguardian.scan_passed is true when the secret scan exited with 0.
C15_ReportCountsFindings ==
  \A i \in 1..Len(pushed) :
     ~pushed[i].security_report.is_none =>
        /\ pushed[i].security_report.summary.total_issues_all_scanners
             = report_data.summary.total_issues + SecretsFound + StaticCount
        /\ scan_result.exit_code = 0 => pushed[i].security_report.gitguardian.scan_passed

FailedOperationally(r) == r.ran /\ r.error.has

\* C18: in push an operational failure of the secret scan or of the static scan
\* does not abort: both scanners have run, the error text is in the block of the
\* scanner that failed, and the record with that report is given to
\* add_server_to_mcp.
C18_ScannerErrorRecorded ==
  (wf = "push" /\ fpc = "done"
     /\ (FailedOperationally(scan_result) \/ FailedOperationally(static_result))) =>
     /\ scan_result.ran /\ static_result.ran
     /\ security_report.gitguardian.error = scan_result.error
     /\ security_report.bandit.error = static_result.error
     /\ \/ "upsert" \in failed /\ Aborted
        \/ Upserted /\ pushed[1].security_report = security_report

C18_Witness ==
  /\ wf = "push" /\ fpc = "done"
  /\ FailedOperationally(scan_result)
  /\ scan_result.exit_code = 127
  /\ ~FailedOperationally(static_result)
  /\ Upserted
  /\ pushed[1].security_report.gitguardian.error = scan_result.error

C18_WitnessStatic ==
  /\ wf = "push" /\ fpc = "done"
  /\ FailedOperationally(static_result)
  /\ ~FailedOperationally(scan_result)
  /\ Upserted

(***************************************************************************)
(* Properties of the lookups by name.                                      *)
(***************************************************************************)
ExactMatches == {i \in 1..Len(mcp_servers) : mcp_servers[i].name = asked}
FoundByExactName ==
  IF ExactMatches = {} THEN hit = 0 ELSE hit > 0 /\ mcp_servers[hit].name = asked

\* C19: every lookup of a server record by name finds a record only when its
\* name equals the name asked for letter by letter, case included, and finds
\* none when no record has exactly that name.
C19_LookupIsCaseSensitive == lookPc = "done" => FoundByExactName

\* the same for the lookups other than find_mcp_by_name
LookupIsCaseSensitiveOutsideStaticScanner ==
  (lookPc = "done" /\ lookup # "find_mcp_by_name") => FoundByExactName

LookupWitness ==
  /\ lookPc = "done"
  /\ lookup = "find_server_entry"
  /\ asked = <<"a", "b">>
  /\ mcp_servers = <<[name |-> <<"A", "b">>], [name |-> <<"a", "b">>]>>
  /\ hit = 2

(***************************************************************************)
(* Properties of _parse_bandit_results.                                    *)
(***************************************************************************)
BucketOf(level) ==
  IF Upper(level) = "HIGH" THEN "high"
  ELSE IF Upper(level) = "MEDIUM" THEN "medium" ELSE "low"
FieldOr(entry) == IF entry.has THEN entry.val ELSE "UNDEFINED"
CountWhere(P(_)) == Cardinality({i \in 1..Len(bandit_results) : P(bandit_results[i])})

Rank(j) == severity_order(parsed.issues[j].severity)

\* C21: the issues returned by _parse_bandit_results are a permutation of the
\* normalized input issues, ascending by severity rank (high 0, medium 1, low 2),
\* and issues of the same severity keep their input order.
C21_SortedStablePermutation ==
  parsePc = "done" =>
    /\ Len(parsed.issues) = Len(bandit_results)
    /\ {parsed.issues[j].title : j \in 1..Len(parsed.issues)} = 1..Len(bandit_results)
    /\ \A j \in 1..Len(parsed.issues) :
         parsed.issues[j] = DetailedIssue(bandit_results[parsed.issues[j].title])
    /\ \A j, k \in 1..Len(parsed.issues) :
         j < k =>
           /\ Rank(j) <= Rank(k)
           /\ Rank(j) = Rank(k) => parsed.issues[j].title < parsed.issues[k].title

C21_Witness ==
  /\ parsePc = "done"
  /\ Len(bandit_results) = 2
  /\ bandit_results[1].issue_severity = Missing
  /\ bandit_results[2].issue_severity = Some("MEDIUM")
  /\ parsed.issues[1].title = 2
  /\ parsed.issues[2].title = 1

C21_WitnessTie ==
  /\ parsePc = "done"
  /\ Len(bandit_results) = 2
  /\ bandit_results[1].issue_severity = Some("LOW")
  /\ bandit_results[2].issue_severity = Some("UNDEFINED")
  /\ parsed.issues[1].title = 1
  /\ parsed.issues[2].title = 2

(***************************************************************************)
(* Properties of run_ggshield_scan.                                        *)
(***************************************************************************)
ErrorFlagged(r) == "error" \in r.keys /\ r.dict.error.has
NormalResult(r) == r.keys = ResultKeys /\ ~r.dict.error.has

\* C22: run_ggshield_scan never raises.  A completed scan, secrets found or not,
\* returns a normal result without an error field that carries the exit code;
\* stdout that does not parse gives scan_data None in it.  A missing API key, a
\* missing executable and a timeout each return an error-flagged result; the
\* first has exit code 500, the second 127, with different error texts; and
\* without the API key no subprocess is started.
C22_NeverRaisesErrorKinds ==
  /\ ~gg_raised
  /\ ggPc = "done" =>
       /\ gg_return.returned
       /\ ~api_key =>
            /\ ErrorFlagged(gg_return)
            /\ gg_return.dict.exit_code = 500
            /\ gg_return.dict.error = Some("GITGUARDIAN_API_KEY not configured on server")
       /\ (api_key /\ ran.raises = "") =>
            /\ NormalResult(gg_return)
            /\ gg_return.dict.exit_code = ran.returncode
            /\ ran.stdout = "not json" => ~gg_return.dict.scan_data.has
            /\ ran.stdout = "json" => gg_return.dict.scan_data = Some(in_path)
       /\ (api_key /\ ran.raises = "FileNotFoundError") =>
            /\ ErrorFlagged(gg_return)
            /\ gg_return.dict.exit_code = 127
            /\ gg_return.dict.error
                 # Some("GITGUARDIAN_API_KEY not configured on server")
       /\ (api_key /\ ran.raises = "TimeoutExpired") => ErrorFlagged(gg_return)
       /\ (api_key /\ ran.raises = "PermissionError") => ErrorFlagged(gg_return)
  /\ ~api_key => spawned = 0

C22_Witness ==
  /\ ggPc = "done"
  /\ api_key
  /\ ran = Completed(1, "not json")
  /\ spawned = 1
  /\ gg_return.keys = ResultKeys
  /\ gg_return.dict.exit_code = 1

C22_WitnessNoApiKey ==
  /\ ggPc = "done"
  /\ ~api_key
  /\ ran.raises = ""
  /\ gg_return.dict.exit_code = 500

C22_WitnessNoExecutable ==
  /\ ggPc = "done"
  /\ api_key
  /\ ran.raises = "FileNotFoundError"
  /\ gg_return.dict.exit_code = 127

(***************************************************************************)
(* Properties of push and the registry.                                    *)
(***************************************************************************)
PastPrompt(p) == pushPc[p] \in {"analysis", "get", "put", "done", "exited"}
Declined(p) == checked[p] = "found" /\ answer[p] = "no"
Confirmed(p) == checked[p] = "found" /\ (force[p] \/ answer[p] = "yes")

\* C23: when the existence check of a push finds a record of the name, the
\* user is asked to confirm unless --force is set; after a refusal the push
\* has ended with no analysis, clone or scan started and without a write (the
\* registry is as it was when no push wrote); and such a push replaces the
\* record only after the confirmation or with --force, as does any push that
\* is the only one writing.
C23_ConfirmOrAbort ==
  /\ \A p \in Procs :
       /\ (checked[p] = "found" /\ PastPrompt(p)) => (answer[p] = "unasked" <=> force[p])
       /\ Declined(p) => (pushPc[p] = "exited" /\ ~analysed[p] /\ puts[p] = 0)
       /\ (checked[p] = "found" /\ (analysed[p] \/ puts[p] > 0)) => Confirmed(p)
       /\ (checked[p] = "found" /\ replaced[p]) => Confirmed(p)
       /\ (replaced[p] /\ \A q \in Procs \ {p} : puts[q] = 0)
            => (force[p] \/ answer[p] = "yes")
  /\ (\A p \in Procs : puts[p] = 0) => bucket = bucket0

C23_Witness ==
  \E p \in Procs :
    /\ ServerExists(bucket0, PushName)
    /\ Declined(p)
    /\ ~force[p]
    /\ pushPc[p] = "exited"
    /\ \A q \in Procs : pushPc[q] \in {"done", "exited"} /\ puts[q] = 0

C23_WitnessReplaced ==
  \E p \in Procs :
    /\ checked[p] = "found"
    /\ answer[p] = "yes"
    /\ replaced[p]
    /\ pushPc[p] = "done"

\* C28: with two pushes of one name running on a registry that did not hold the
\* name, a push whose existence check found no record never replaces a record
\* of that name: each replacement follows that push's confirmation or --force.
C28_NoReplacementWithoutConfirmation ==
  ~ServerExists(bucket0, PushName) =>
    \A p \in Procs : checked[p] = "absent" => ~replaced[p]

(***************************************************************************)
(* Properties of create_sonarcloud_project.                                *)
(***************************************************************************)
\* the service worked: it created the project, or answered that it exists
Served(c) == c.response = ServiceAnswer(c.existed)

\* C24: create_sonarcloud_project returns True when the service creates the
\* project and when it answers that the project already exists, so every
\* repetition for the same key on a working service returns True; and when it
\* returns False (another API error, a network error) run_analysis warns and
\* goes on to the clone and the scanner: the only steps of a run that raise
\* are the clone and the scanner.
C24_CreateIsIdempotentAndOnlyWarns ==
  /\ \A i \in 1..Len(creations) : Served(creations[i]) => creations[i].returned
  /\ \A i \in 1..Len(creations) :
       (creations[i].response.raised \/ creations[i].response.status_code \notin {200, 400})
         => ~creations[i].returned
  /\ crPc \in {"clone", "scanner", "end"} =>
       /\ Len(creations) = runs
       /\ warned <=> ~Last(creations).returned
       /\ raised_at \in {"none", "clone", "scanner"}
  /\ crPc \in {"clone", "scanner"} => raised_at = "none"

C24_Witness ==
  /\ Len(creations) = 2
  /\ creations[1].response.status_code = 200
  /\ creations[1].returned
  /\ creations[2].existed
  /\ creations[2].response = HttpResponse(400, AlreadyExistsText)
  /\ creations[2].returned
  /\ ~warned

C24_WitnessWarned ==
  /\ crPc = "end"
  /\ Len(creations) = 1
  /\ creations[1].response = RequestException
  /\ ~creations[1].returned
  /\ warned
  /\ raised_at = "none"

(***************************************************************************)
(* More properties of create_security_report.                              *)
(***************************************************************************)
AllPassed == unified_report.recommendations = <<RecAllPassed>>

\* C25, as claimed: when the recommendations are exactly the all-passed line,
\* scan_passed is true and total_issues_all_scanners is 0.
C25_AllPassedMeansNoIssues ==
  (aggPc = "done" /\ AllPassed) =>
    /\ unified_report.scan_passed
    /\ unified_report.total_issues_all_scanners = 0

\* C25, amended: the recommendations are exactly the all-passed line if and
\* only if the secret count, the static issue count and the static
\* high-severity count are 0, the coverage is at least 80 and the quality
\* issue count is at most 5; then total_issues_all_scanners is the quality
\* issue count and scan_passed is true exactly when that count is 0.
C25_AllPassedAllowsFiveQualityIssues ==
  aggPc = "done" =>
    /\ AllPassed <=>
         /\ Secrets = 0 /\ StaticIssues = 0 /\ StaticHigh = 0
         /\ ~CoverageUnder80
         /\ QualityIssues <= 5
    /\ AllPassed =>
         /\ unified_report.total_issues_all_scanners = QualityIssues
         /\ unified_report.scan_passed <=> QualityIssues = 0

C25_Witness ==
  /\ aggPc = "done"
  /\ AllPassed
  /\ QualityIssues = 3
  /\ sonarqube_data.coverage.kind = "num"
  /\ sonarqube_data.coverage.num = 90
  /\ ~unified_report.scan_passed
  /\ unified_report.total_issues_all_scanners = 3

(***************************************************************************)
(* More properties of the analysis poller.                                 *)
(***************************************************************************)
\* a 200 response with an empty queue whose current task is absent or has a
\* status other than PENDING and IN_PROGRESS
Returning(r) == Answered(r) /\ ~r.queue /\ r.current \notin {"PENDING", "IN_PROGRESS"}
OtherStatus(r) ==
  Answered(r) /\ ~r.queue /\ r.current \notin {"absent", "SUCCESS", "PENDING", "IN_PROGRESS"}
ReturnedOnResponse == pollPc = "returned" /\ polls = sleeps + 1

\* C26: the poller returns ready = false only on a 200 response with an empty
\* queue and a current task whose status is none of SUCCESS, PENDING,
\* IN_PROGRESS; every other exit returns ready = true, also the one on a 200
\* response with neither queue nor current task.  A non-200 response, a
\* request error and a response with a non-empty queue, whatever its current
\* task shows, never end the loop: each is followed by a sleep.
C26_NotReadyOnlyOnOtherStatus ==
  /\ polls = Len(seen)
  /\ polls \in {sleeps, sleeps + 1}
  /\ polls = sleeps + 1 => pollPc = "returned"
  /\ \A i \in 1..Len(seen) :
       Returning(seen[i]) <=> (i = Len(seen) /\ ReturnedOnResponse)
  /\ pollPc = "returned" =>
       (~ready <=> (ReturnedOnResponse /\ OtherStatus(Last(seen))))

C26_Witness ==
  /\ pollPc = "returned"
  /\ Len(seen) = 3
  /\ seen[1] = Answer(200, TRUE, "SUCCESS")
  /\ seen[2] = Answer(500, FALSE, "absent")
  /\ seen[3] = Answer(200, FALSE, "FAILED")
  /\ sleeps = 2
  /\ ~ready

C26_WitnessNothingToWaitFor ==
  /\ pollPc = "returned"
  /\ seen = <<Answer(200, FALSE, "absent")>>
  /\ sleeps = 0
  /\ ready

CeilDiv(a, b) == (a + b - 1) \div b

\* C27: the poller returns for every sequence of responses; an iteration that
\* does not return sleeps 3 seconds, so at most ceil(max_wait / 3) status
\* requests are made (20 for max_wait = 60); with max_wait <= 0 it returns
\* ready = true without a request.
C27_TerminatesWithinBound ==
  /\ <>(pollPc = "returned")
  /\ [](max_wait > 0 => polls <= CeilDiv(max_wait, 3))
  /\ [](max_wait <= 0 => (polls = 0 /\ (pollPc = "returned" => ready)))
  /\ [][(polls' = polls + 1 /\ pollPc' = "loop")
          => (sleeps' = sleeps + 1 /\ elapsed' >= elapsed + 3)]_vars
  /\ [][pollPc = "returned" => polls' = polls]_vars
  /\ [](CeilDiv(60, 3) = 20)

C27_Witness ==
  /\ pollPc = "returned"
  /\ max_wait = 7
  /\ polls = 3
  /\ sleeps = 3
  /\ elapsed = 9
  /\ ready

C27_WitnessNoRequest ==
  /\ pollPc = "returned"
  /\ max_wait = -1
  /\ polls = 0
  /\ ready

(***************************************************************************)
(* More properties of the registry.                                        *)
(***************************************************************************)
OtherNames(servers, name) == SelectSeq(servers, LAMBDA s : s.name # name)

\* C29: a call of add_server_to_mcp for a record named n leaves the records of
\* every other name as they were stored, in the same relative order, and puts
\* the record of n last in the list, also when n was stored at an earlier
\* position.
C29_OtherRecordsKeptRecordLast ==
  \A i \in 1..Len(hist) :
    LET h == hist[i]
    IN /\ OtherNames(h.written, h.name) = OtherNames(h.replaced.servers, h.name)
       /\ Last(h.written).name = h.name
       /\ Count(h.written, h.name) = 1

\* What remains of C29 in the runs in which no read of the registry failed with
\* another error than NoSuchKey.
OtherRecordsKeptRecordLast_ReadsSucceeded == ReadsSucceeded => C29_OtherRecordsKeptRecordLast

\* a re-upsert moves the record from the first position to the last
MovedToEnd ==
  /\ Len(hist) = 1
  /\ hist[1].outcome = "ok"
  /\ Len(hist[1].replaced.servers) = 2
  /\ hist[1].replaced.servers[1].name = hist[1].name
  /\ hist[1].replaced.servers[2].name # hist[1].name
  /\ store.servers = <<hist[1].replaced.servers[2], Written(hist[1])>>

(***************************************************************************)
(* More properties of the pagination loops.                                *)
(***************************************************************************)
\* the last response is a 200 whose body lacks the total the function reads:
\* "total" for issues, "paging"."total" for hotspots
CarriesNoTotal ==
  /\ resp.status = "ok"
  /\ IF kind = "issues" THEN ~resp.total.has
     ELSE ~resp.paging.has \/ ~resp.paging.val.total.has

\* C30: a response that carries no total is read as total 0: the loop ends
\* after that page and no further page is requested, also when the page held
\* a full 500 rows, which are kept.
C30_MissingTotalStopsPagination ==
  /\ [](CarriesNoTotal =>
          /\ pagePc = "done"
          /\ requests = page
          /\ Len(all_rows) = page
          /\ Last(all_rows).count = resp.rows)
  /\ [][pagePc = "done" => (requests' = requests /\ page' = page)]_vars

C30_Witness ==
  /\ kind = "hotspots"
  /\ CarriesNoTotal
  /\ resp.total = Some(PageSize + 1)
  /\ resp.rows = PageSize
  /\ page = 1
  /\ requests = 1
  /\ pagePc = "done"
  /\ RowCount(all_rows) = PageSize

C30_WitnessIssues ==
  /\ kind = "issues"
  /\ CarriesNoTotal
  /\ resp.paging.has
  /\ resp.rows = PageSize
  /\ page = 2
  /\ pagePc = "done"

====
